---- MODULE Spec2Model ----
(***************************************************************************)
(* A model of the XML-RPC codec of kofrasa/rpc (package xml).              *)
(*                                                                         *)
(* Byte streams are sequences of symbols.  A symbol is one character of    *)
(* text ("a", "<", "&", "CR" for carriage return, "LF" for line feed,      *)
(* "NUL" for a control character outside the XML character range, "FFFD"   *)
(* for the replacement character) or one whole XML name (a tag name such   *)
(* as "value", an entity name such as "lt" or "#xD"): the strings that the *)
(* program writes and compares as units.                                   *)
(*                                                                         *)
(* Go values carry their dynamic type: a value is a record whose field t   *)
(* names the Go type and whose other field holds the data.                 *)
(***************************************************************************)
EXTENDS Integers, Sequences, FiniteSets, TLC

(***************************************************************************)
(* Generic helpers on sequences.                                           *)
(***************************************************************************)
Last(s) == s[Len(s)]

Front(s) == SubSeq(s, 1, Len(s) - 1)

Drop(s, n) == SubSeq(s, n + 1, Len(s))

Take(s, n) == SubSeq(s, 1, n)

Range(s) == {s[i] : i \in 1..Len(s)}

\* v bound to the parameter of Op; v is computed first, as the statement
\* before a continuation is
Let(v, Op(_)) == IF v = v THEN Op(v) ELSE Op(v)

RECURSIVE Pow10(_)
Pow10(k) == IF k = 0 THEN 1 ELSE 10 * Pow10(k - 1)

(***************************************************************************)
(* Go errors.  The error values the package produces or passes on.         *)
(***************************************************************************)
NoErr == [type |-> "nil"]

EOF == [type |-> "io.EOF"]

SyntaxError(msg) == [type |-> "*xml.SyntaxError", msg |-> msg]

\* fmt.Errorf: a plain error value
Errorf(msg) == [type |-> "*errors.errorString", msg |-> msg]

ParseError == [type |-> "*time.ParseError"]

CorruptInputError == [type |-> "base64.CorruptInputError"]

(***************************************************************************)
(* Fault taxonomy.                                                         *)
(***************************************************************************)
MalformedInput == -32700

UnsupportedEncoding == -32701

InvalidCharacter == -32702

InvalidRequest == -32600

MethodNotFound == -32601

InvalidParams == -32602

InternalError == -32603

FaultCodes ==
    {MalformedInput, UnsupportedEncoding, InvalidCharacter, InvalidRequest,
     MethodNotFound, InvalidParams, InternalError}

faultMessages(f) ==
    CASE f = MalformedInput -> <<"malformed input">>
      [] f = UnsupportedEncoding -> <<"unsupported encoding">>
      [] f = InvalidCharacter -> <<"invalid character for encoding">>
      [] f = InvalidRequest -> <<"invalid xml-rpc. not conforming to spec">>
      [] f = MethodNotFound -> <<"requested method not found">>
      [] f = InvalidParams -> <<"invalid method parameters">>
      [] f = InternalError -> <<"internal xml-rpc error">>
      [] OTHER -> <<>>

\* Fault{Code, Message} as an error value
Fault(code, message) == [type |-> "Fault", Code |-> code, Message |-> message]

(***************************************************************************)
(* fmt.Sprintf(format) with no operands, as faultCode.New is called by     *)
(* makeResponse: "%%" gives "%", "%" followed by a verb gives              *)
(* "%!verb(MISSING)", a trailing "%" gives "%!(NOVERB)".                   *)
(***************************************************************************)
RECURSIVE SkipFlags(_)
\* the flags of a verb: of the characters drawn here, the space
SkipFlags(s) == IF s # <<>> /\ Head(s) = " " THEN SkipFlags(Tail(s)) ELSE s

RECURSIVE SprintfNoArgs(_)
SprintfNoArgs(format) ==
    IF format = <<>> THEN <<>>
    ELSE IF Head(format) # "%" THEN <<Head(format)>> \o SprintfNoArgs(Tail(format))
    ELSE Let(SkipFlags(Tail(format)), LAMBDA rest :
             IF rest = <<>> THEN <<"%", "!", "(NOVERB)">>
             ELSE IF Head(rest) = "%" THEN <<"%">> \o SprintfNoArgs(Tail(rest))
             ELSE <<"%", "!", Head(rest), "(MISSING)">> \o SprintfNoArgs(Tail(rest)))

\* faultCode.New(format, v...) once the format has been expanded to s
faultNew(f, s) == Fault(f, IF Len(s) = 0 THEN faultMessages(f) ELSE s)

(***************************************************************************)
(* Tags of the wire grammar.                                               *)
(***************************************************************************)
tagNames ==
    {"value", "struct", "array", "data", "base64", "boolean", "dateTime.iso8601",
     "double", "int", "string", "member", "name", "methodCall", "methodName",
     "methodResponse", "params", "param", "fault"}

startTags(t) == <<"<", t, ">">>

endTags(t) == <<"<", "/", t, ">">>

valueTagSet ==
    {"string", "int", "base64", "dateTime.iso8601", "double", "boolean", "array",
     "struct", "i4"}

\* encoding/xml.Header
xmlHeader == <<"<", "?", "xml", " ", "version=1.0 encoding=UTF-8", "?", ">", "LF">>

(***************************************************************************)
(* Text conversions of the Go library, computed on symbols.                *)
(***************************************************************************)
Digits == <<"0", "1", "2", "3", "4", "5", "6", "7", "8", "9">>

DigitSet == Range(Digits)

DigitVal(c) == CHOOSE d \in 0..9 : Digits[d + 1] = c

RECURSIVE NatText(_)
NatText(n) == IF n < 10 THEN <<Digits[n + 1]>> ELSE NatText(n \div 10) \o <<Digits[(n % 10) + 1]>>

\* strconv.Itoa / fmt.Sprint of an integer
Itoa(n) == IF n < 0 THEN <<"-">> \o NatText(-n) ELSE NatText(n)

\* the decimal text of n, zero-padded on the left to w digits
RECURSIVE PadNat(_, _)
PadNat(n, w) == IF w = 0 THEN <<>> ELSE PadNat(n \div 10, w - 1) \o <<Digits[(n % 10) + 1]>>

AllDigits(s) == \A i \in 1..Len(s) : s[i] \in DigitSet

RECURSIVE DigitsVal(_)
DigitsVal(s) == IF s = <<>> THEN 0 ELSE 10 * DigitsVal(Front(s)) + DigitVal(Last(s))

\* strconv.Atoi: an optional sign and at least one decimal digit
Atoi(s) ==
    LET body == IF s # <<>> /\ Head(s) \in {"+", "-"} THEN Tail(s) ELSE s
    IN  IF body = <<>> \/ ~AllDigits(body) THEN [ok |-> FALSE, n |-> 0]
        ELSE [ok |-> TRUE,
              n |-> IF Head(s) = "-" THEN -DigitsVal(body) ELSE DigitsVal(body)]

\* strings.TrimRight(s, "0")
RECURSIVE TrimRightZeros(_)
TrimRightZeros(s) ==
    IF s # <<>> /\ Last(s) = "0" THEN TrimRightZeros(Front(s)) ELSE s

(***************************************************************************)
(* A float64 is modelled by its decimal expansion: sign, integer part and  *)
(* fraction digits without trailing zeros.                                 *)
(***************************************************************************)
RECURSIVE NormFrac(_)
NormFrac(fd) == IF fd # <<>> /\ Last(fd) = 0 THEN NormFrac(Front(fd)) ELSE fd

Float(neg, ip, fd) ==
    LET f == NormFrac(fd)
    IN  [neg |-> neg /\ ~(ip = 0 /\ f = <<>>), ip |-> ip, fd |-> f]

\* the precision of the verb %f
FmtPrec == 6

RECURSIVE FracVal(_, _)
\* the first w fraction digits of fd as a number
FracVal(fd, w) ==
    IF w = 0 THEN 0
    ELSE 10 * FracVal(fd, w - 1) + (IF w <= Len(fd) THEN fd[w] ELSE 0)

\* fmt.Sprintf("%f", d): FmtPrec fraction digits, rounded to nearest
SprintfF(d) ==
    LET scaled == d.ip * Pow10(FmtPrec) + FracVal(d.fd, FmtPrec)
        up == Len(d.fd) > FmtPrec /\ d.fd[FmtPrec + 1] >= 5
        n == IF up THEN scaled + 1 ELSE scaled
    IN  (IF d.neg THEN <<"-">> ELSE <<>>)
        \o NatText(n \div Pow10(FmtPrec)) \o <<".">> \o PadNat(n % Pow10(FmtPrec), FmtPrec)

RECURSIVE IndexOf(_, _)
\* strings.IndexByte, 0 when c does not occur
IndexOf(s, c) ==
    IF s = <<>> THEN 0
    ELSE IF Head(s) = c THEN 1
    ELSE LET i == IndexOf(Tail(s), c) IN IF i = 0 THEN 0 ELSE i + 1

RECURSIVE DigitNums(_)
DigitNums(s) == IF s = <<>> THEN <<>> ELSE <<DigitVal(Head(s))>> \o DigitNums(Tail(s))

\* strconv.ParseFloat on decimal notation: sign, digits, an optional point
ParseFloat(s) ==
    LET neg == s # <<>> /\ Head(s) = "-"
        body == IF s # <<>> /\ Head(s) \in {"+", "-"} THEN Tail(s) ELSE s
        dot == IndexOf(body, ".")
        ips == IF dot = 0 THEN body ELSE Take(body, dot - 1)
        fds == IF dot = 0 THEN <<>> ELSE Drop(body, dot)
    IN  IF ~AllDigits(ips) \/ ~AllDigits(fds) \/ (ips = <<>> /\ fds = <<>>)
        THEN [ok |-> FALSE, d |-> Float(FALSE, 0, <<>>)]
        ELSE [ok |-> TRUE, d |-> Float(neg, DigitsVal(ips), DigitNums(fds))]

(***************************************************************************)
(* encoding/base64.StdEncoding on sequences of bytes (0..255).             *)
(***************************************************************************)
B64Alphabet ==
    <<"A", "B", "C", "D", "E", "F", "G", "H", "I", "J", "K", "L", "M", "N", "O", "P",
      "Q", "R", "S", "T", "U", "V", "W", "X", "Y", "Z", "a", "b", "c", "d", "e", "f",
      "g", "h", "i", "j", "k", "l", "m", "n", "o", "p", "q", "r", "s", "t", "u", "v",
      "w", "x", "y", "z", "0", "1", "2", "3", "4", "5", "6", "7", "8", "9", "+", "/">>

B64Set == Range(B64Alphabet)

B64Char(v) == B64Alphabet[v + 1]

B64Val(c) == CHOOSE v \in 0..63 : B64Alphabet[v + 1] = c

RECURSIVE B64Encode(_)
\* base64.StdEncoding.EncodeToString
B64Encode(bs) ==
    IF bs = <<>> THEN <<>>
    ELSE IF Len(bs) = 1 THEN
        <<B64Char(bs[1] \div 4), B64Char((bs[1] % 4) * 16), "=", "=">>
    ELSE IF Len(bs) = 2 THEN
        <<B64Char(bs[1] \div 4), B64Char((bs[1] % 4) * 16 + bs[2] \div 16),
          B64Char((bs[2] % 16) * 4), "=">>
    ELSE
        <<B64Char(bs[1] \div 4), B64Char((bs[1] % 4) * 16 + bs[2] \div 16),
          B64Char((bs[2] % 16) * 4 + bs[3] \div 64), B64Char(bs[3] % 64)>>
        \o B64Encode(Drop(bs, 3))

RECURSIVE B64Quads(_)
\* the decoded bytes of a padded text whose length is a multiple of four;
\* <<-1>> stands for corrupt input
B64Quads(s) ==
    IF s = <<>> THEN <<>>
    ELSE LET a == s[1]
             b == s[2]
             c == s[3]
             d == s[4]
             rest == IF Len(s) = 4 THEN <<>> ELSE B64Quads(Drop(s, 4))
         IN  IF a \notin B64Set \/ b \notin B64Set THEN <<-1>>
             ELSE IF c = "=" THEN
                 IF d = "=" /\ Len(s) = 4
                 THEN <<B64Val(a) * 4 + B64Val(b) \div 16>>
                 ELSE <<-1>>
             ELSE IF c \notin B64Set THEN <<-1>>
             ELSE IF d = "=" THEN
                 IF Len(s) = 4
                 THEN <<B64Val(a) * 4 + B64Val(b) \div 16,
                        (B64Val(b) % 16) * 16 + B64Val(c) \div 4>>
                 ELSE <<-1>>
             ELSE IF d \notin B64Set \/ rest = <<-1>> THEN <<-1>>
             ELSE <<B64Val(a) * 4 + B64Val(b) \div 16,
                    (B64Val(b) % 16) * 16 + B64Val(c) \div 4,
                    (B64Val(c) % 4) * 64 + B64Val(d)>> \o rest

\* base64.StdEncoding.DecodeString: line breaks are skipped
B64Decode(s) ==
    LET t == SelectSeq(s, LAMBDA c : c \notin {"CR", "LF"})
        bs == IF Len(t) % 4 # 0 THEN <<-1>> ELSE B64Quads(t)
    IN  IF bs = <<-1>> THEN [ok |-> FALSE, bytes |-> <<>>] ELSE [ok |-> TRUE, bytes |-> bs]

(***************************************************************************)
(* time.Time: the wall clock fields, nanoseconds and the zone offset in    *)
(* minutes (0 is UTC).                                                     *)
(***************************************************************************)
Time(Y, M, D, h, m, sec, ns, off) ==
    [Y |-> Y, M |-> M, D |-> D, h |-> h, m |-> m, s |-> sec, ns |-> ns, off |-> off]

\* time.Time{}
ZeroTime == Time(1, 1, 1, 0, 0, 0, 0, 0)

\* Time.AppendFormat(b, iso8601), layout "20060102T15:04:05"
FormatISO8601(t) ==
    PadNat(t.Y, 4) \o PadNat(t.M, 2) \o PadNat(t.D, 2) \o <<"T">> \o PadNat(t.h, 2)
    \o <<":">> \o PadNat(t.m, 2) \o <<":">> \o PadNat(t.s, 2)

(***************************************************************************)
(* time.Parse for the layouts of dateTimeFormats.  A layout is a sequence  *)
(* of elements: a field of the reference time ("2006", "01", "02", "15",   *)
(* "04", "05", "Z07:00", "-07:00") or a literal symbol.  Fractional        *)
(* seconds are not modelled: no input holds "." after the seconds.         *)
(***************************************************************************)
iso8601 == <<"2006", "01", "02", "T", "15", ":", "04", ":", "05">>

rfc3339NoTZ == <<"2006", "-", "01", "-", "02", "T", "15", ":", "04", ":", "05">>

rfc3339HyphenTZ == rfc3339NoTZ \o <<"-07:00">>

\* time.RFC3339
RFC3339 == rfc3339NoTZ \o <<"Z07:00">>

dateTimeFormats == <<iso8601, RFC3339, rfc3339HyphenTZ, rfc3339NoTZ>>

IsLeap(y) == y % 4 = 0 /\ (y % 100 # 0 \/ y % 400 = 0)

DaysIn(m, y) ==
    IF m = 2 THEN (IF IsLeap(y) THEN 29 ELSE 28)
    ELSE IF m \in {4, 6, 9, 11} THEN 30 ELSE 31

\* getnum(s, fixed): two digits, or one digit when not fixed
GetNum(s, fixed) ==
    IF Len(s) >= 1 /\ s[1] \in DigitSet THEN
        IF Len(s) >= 2 /\ s[2] \in DigitSet
        THEN [ok |-> TRUE, n |-> DigitVal(s[1]) * 10 + DigitVal(s[2]), rest |-> Drop(s, 2)]
        ELSE IF fixed THEN [ok |-> FALSE, n |-> 0, rest |-> s]
        ELSE [ok |-> TRUE, n |-> DigitVal(s[1]), rest |-> Tail(s)]
    ELSE [ok |-> FALSE, n |-> 0, rest |-> s]

\* the numeric zone "+hh:mm" or "-hh:mm" at the head of s, in minutes
GetZone(s) ==
    IF Len(s) < 6 \/ s[4] # ":" \/ s[1] \notin {"+", "-"}
       \/ ~AllDigits(SubSeq(s, 2, 3)) \/ ~AllDigits(SubSeq(s, 5, 6))
    THEN [ok |-> FALSE, n |-> 0, rest |-> s]
    ELSE LET hr == DigitsVal(SubSeq(s, 2, 3))
             mm == DigitsVal(SubSeq(s, 5, 6))
         IN  IF hr > 24 \/ mm > 60 THEN [ok |-> FALSE, n |-> 0, rest |-> s]
             ELSE [ok |-> TRUE,
                   n |-> IF s[1] = "-" THEN -(hr * 60 + mm) ELSE hr * 60 + mm,
                   rest |-> Drop(s, 6)]

RECURSIVE ParseLayout(_, _, _)
\* the loop of time.Parse over the layout's elements; t collects the fields
ParseLayout(layout, s, t) ==
    IF layout = <<>> THEN
        [ok |-> s = <<>> /\ t.D <= DaysIn(t.M, t.Y), t |-> t]
    ELSE
        LET e == Head(layout)
            more == Tail(layout)
            bad == [ok |-> FALSE, t |-> ZeroTime]
        IN  CASE e = "2006" ->
                  IF Len(s) >= 4 /\ AllDigits(Take(s, 4))
                  THEN ParseLayout(more, Drop(s, 4), [t EXCEPT !.Y = DigitsVal(Take(s, 4))])
                  ELSE bad
              [] e = "01" ->
                  LET g == GetNum(s, TRUE)
                  IN  IF g.ok /\ g.n >= 1 /\ g.n <= 12
                      THEN ParseLayout(more, g.rest, [t EXCEPT !.M = g.n]) ELSE bad
              [] e = "02" ->
                  LET g == GetNum(s, TRUE)
                  IN  IF g.ok /\ g.n >= 1
                      THEN ParseLayout(more, g.rest, [t EXCEPT !.D = g.n]) ELSE bad
              [] e = "15" ->
                  LET g == GetNum(s, FALSE)
                  IN  IF g.ok /\ g.n < 24
                      THEN ParseLayout(more, g.rest, [t EXCEPT !.h = g.n]) ELSE bad
              [] e = "04" ->
                  LET g == GetNum(s, TRUE)
                  IN  IF g.ok /\ g.n < 60
                      THEN ParseLayout(more, g.rest, [t EXCEPT !.m = g.n]) ELSE bad
              [] e = "05" ->
                  LET g == GetNum(s, TRUE)
                  IN  IF g.ok /\ g.n < 60
                      THEN ParseLayout(more, g.rest, [t EXCEPT !.s = g.n]) ELSE bad
              [] e = "Z07:00" /\ s # <<>> /\ Head(s) = "Z" ->
                  ParseLayout(more, Tail(s), [t EXCEPT !.off = 0])
              [] e \in {"Z07:00", "-07:00"} /\ ~(e = "Z07:00" /\ s # <<>> /\ Head(s) = "Z") ->
                  LET z == GetZone(s)
                  IN  IF z.ok THEN ParseLayout(more, z.rest, [t EXCEPT !.off = z.n]) ELSE bad
              [] OTHER ->
                  IF s # <<>> /\ Head(s) = e THEN ParseLayout(more, Tail(s), t) ELSE bad

\* time.Parse(layout, s): the zero Time on failure
TimeParse(layout, s) == ParseLayout(layout, s, ZeroTime)

RECURSIVE ParseFormats(_, _)
\* the loop over dateTimeFormats in readPrimitive: the first layout that
\* parses wins; after the last failure the error of that failure is left
ParseFormats(formats, s) ==
    LET p == TimeParse(Head(formats), s)
    IN  IF p.ok \/ Len(formats) = 1 THEN p ELSE ParseFormats(Tail(formats), s)

(***************************************************************************)
(* The value model (message.go).                                           *)
(***************************************************************************)
nilKind == "nil"

booleanKind == "boolean"

intKind == "int"

doubleKind == "double"

dateTimeKind == "dateTime"

base64Kind == "base64"

stringKind == "string"

arrayKind == "array"

structKind == "struct"

\* the nil interface value
NilValue == [t |-> "nil"]

\* Go values by dynamic type
GoBool(b) == [t |-> "bool", b |-> b]

GoInt(t, n) == [t |-> t, n |-> n]

GoFloat(t, d) == [t |-> t, d |-> d]

GoString(s) == [t |-> "string", s |-> s]

GoBytes(bs) == [t |-> "[]uint8", bytes |-> bs]

GoTime(tm) == [t |-> "time.Time", tm |-> tm]

\* []rpcValue and []rpcEntry
GoArray(a) == [t |-> "[]rpcValue", array |-> a]

GoMembers(m) == [t |-> "[]rpcEntry", members |-> m]

rpcValue(kind, value) == [kind |-> kind, value |-> value]

rpcEntry(name, value) == [Name |-> name, Value |-> value]

\* var r rpcValue
ZeroRpcValue == rpcValue(nilKind, NilValue)

\* an emptiness test that leaves out the struct case
isEmpty_noStruct(r) ==
    CASE r.kind = nilKind -> TRUE
      [] r.kind = arrayKind -> Len(r.value.array) = 0
      [] OTHER -> FALSE

\* an emptiness test that looks at the kind alone
isEmpty_kindOnly(r) == r.kind = nilKind

\* rpcValue.isEmpty
isEmpty(r) ==
    CASE r.kind = nilKind -> TRUE
      [] r.kind = arrayKind -> Len(r.value.array) = 0
      [] r.kind = structKind -> Len(r.value.members) = 0
      [] OTHER -> FALSE

(***************************************************************************)
(* The writer.  The stream is an in-memory buffer whose writes do not      *)
(* fail, so every write function is the text it appends.                   *)
(***************************************************************************)
writeRaw(t, raw) == startTags(t) \o raw \o endTags(t)

\* writeXML(t, fn) where fn writes body
writeXML(t, body) == startTags(t) \o body \o endTags(t)

\* the characters that select the escaping path: `<>&'"`
EscapeTriggers == {"<", ">", "&", "'", "\""}

\* strings.IndexAny(s, `<>&'"`) == -1
NoTrigger(s) == \A i \in 1..Len(s) : s[i] \notin EscapeTriggers

\* xml.EscapeText of one character
EscapeChar(c) ==
    CASE c = "\"" -> <<"&", "#34", ";">>
      [] c = "'" -> <<"&", "#39", ";">>
      [] c = "&" -> <<"&", "amp", ";">>
      [] c = "<" -> <<"&", "lt", ";">>
      [] c = ">" -> <<"&", "gt", ";">>
      [] c = "TAB" -> <<"&", "#x9", ";">>
      [] c = "LF" -> <<"&", "#xA", ";">>
      [] c = "CR" -> <<"&", "#xD", ";">>
      [] c = "NUL" -> <<"FFFD">>
      [] OTHER -> <<c>>

RECURSIVE EscapeText(_)
\* xml.EscapeText
EscapeText(s) == IF s = <<>> THEN <<>> ELSE EscapeChar(Head(s)) \o EscapeText(Tail(s))

boolEncodeMap(b) == IF b THEN <<"1">> ELSE <<"0">>

\* the doubleKind case of writeValue
FormatDouble(d) ==
    LET t == TrimRightZeros(SprintfF(d))
    IN  IF Len(t) = 0 \/ Last(t) = "." THEN t \o <<"0">> ELSE t

\* the stringKind case of writeValue
writeString(s) ==
    IF NoTrigger(s) THEN writeRaw("string", s) ELSE writeXML("string", EscapeText(s))

RECURSIVE writeValue(_)
RECURSIVE writeValues(_)
RECURSIVE writeMembers(_)
writeValue(rpc) ==
    writeXML("value",
        CASE rpc.kind = intKind -> writeRaw("int", Itoa(rpc.value.n))
          [] rpc.kind = booleanKind -> writeRaw("boolean", boolEncodeMap(rpc.value.b))
          [] rpc.kind = doubleKind -> writeRaw("double", FormatDouble(rpc.value.d))
          [] rpc.kind = stringKind -> writeString(rpc.value.s)
          [] rpc.kind = dateTimeKind ->
                writeRaw("dateTime.iso8601", FormatISO8601(rpc.value.tm))
          [] rpc.kind = base64Kind -> writeRaw("base64", B64Encode(rpc.value.bytes))
          [] rpc.kind = arrayKind ->
                writeXML("array", writeXML("data", writeValues(rpc.value.array)))
          [] rpc.kind = structKind -> writeXML("struct", writeMembers(rpc.value.members))
          [] OTHER -> <<>>)

\* for _, v := range array { w.writeValue(v) }
writeValues(array) ==
    IF array = <<>> THEN <<>> ELSE writeValue(Head(array)) \o writeValues(Tail(array))

\* for _, m := range members { <member><name>..</name>value</member> }
writeMembers(members) ==
    IF members = <<>> THEN <<>>
    ELSE writeXML("member",
             writeRaw("name", Head(members).Name) \o writeValue(Head(members).Value))
         \o writeMembers(Tail(members))

RECURSIVE writeParamList(_)
\* for _, v := range rpc.Params { <param>value</param> }
writeParamList(params) ==
    IF params = <<>> THEN <<>>
    ELSE writeXML("param", writeValue(Head(params))) \o writeParamList(Tail(params))

\* xmlWriter.writeCall
writeCall(rpc) ==
    xmlHeader
    \o writeXML("methodCall",
           writeRaw("methodName", rpc.Method)
           \o writeXML("params", writeParamList(rpc.Params)))

\* xmlWriter.writeResponse
writeResponse(rpc) ==
    xmlHeader
    \o writeXML("methodResponse",
           IF ~isEmpty(rpc.Fault)
           THEN writeXML("fault", writeValue(rpc.Fault))
           ELSE writeXML("params", writeParamList(rpc.Params)))

(***************************************************************************)
(* The pull parser under the reader: xml.Decoder.RawToken on the forms of  *)
(* markup the streams hold: start tags, end tags, empty-element tags,      *)
(* processing instructions and character data with entities.  Streams hold *)
(* no attributes, comments, directives or CDATA sections.                  *)
(***************************************************************************)
StartElement(name) == [type |-> "StartElement", name |-> name]

EndElement(name) == [type |-> "EndElement", name |-> name]

CharData(data) == [type |-> "CharData", data |-> data]

ProcInst(target) == [type |-> "ProcInst", target |-> target]

\* the nil xml.Token
NilToken == [type |-> "nil"]

\* symbols that cannot start an XML name
NonNameSyms ==
    {"<", ">", "/", "?", "&", ";", " ", "CR", "LF", "TAB", "NUL", "FFFD", "\"", "'",
     "%", "=", "+", "-", ".", ":", "!", "#34", "#39", "#x9", "#xA", "#xD"}
    \cup DigitSet

IsName(c) == c \notin NonNameSyms

WhiteSyms == {" ", "CR", "LF", "TAB"}

\* the predefined and numeric character entities
EntityNames == {"lt", "gt", "amp", "apos", "quot", "#34", "#39", "#x9", "#xA", "#xD"}

Entity(e) ==
    CASE e = "lt" -> "<"
      [] e = "gt" -> ">"
      [] e = "amp" -> "&"
      [] e = "apos" -> "'"
      [] e \in {"quot", "#34"} -> "\""
      [] e = "#39" -> "'"
      [] e = "#x9" -> "TAB"
      [] e = "#xA" -> "LF"
      [] e = "#xD" -> "CR"

\* xml.NewDecoder(r)
NewDecoder(in) == [in |-> in, err |-> NoErr, needClose |-> FALSE, toClose |-> ""]

\* the number of leading symbols of in that Decoder.text copies as they
\* are: none of "<", "&" and CR
PlainRun(in) ==
    LET stops == {i \in 1..Len(in) : in[i] \in {"<", "&", "CR"}}
    IN  IF stops = {} THEN Len(in)
        ELSE (CHOOSE i \in stops : \A j \in stops : i <= j) - 1

RECURSIVE LexText(_, _)
\* Decoder.text: character data up to the next "<" or the end of input;
\* entities are expanded, unescaped CR and CR LF become LF
LexText(in, acc) ==
    IF in = <<>> \/ Head(in) = "<" THEN [ok |-> TRUE, data |-> acc, rest |-> in]
    ELSE IF Head(in) = "&" THEN
        IF Len(in) >= 3 /\ in[2] \in EntityNames /\ in[3] = ";"
        THEN LexText(Drop(in, 3), acc \o <<Entity(in[2])>>)
        ELSE [ok |-> FALSE, data |-> <<>>, rest |-> in]
    ELSE IF Head(in) = "CR" THEN
        LexText(IF Len(in) >= 2 /\ in[2] = "LF" THEN Drop(in, 2) ELSE Tail(in),
                acc \o <<"LF">>)
    ELSE LexText(Drop(in, PlainRun(in)), acc \o Take(in, PlainRun(in)))

RECURSIVE SkipSpace(_)
SkipSpace(in) == IF in # <<>> /\ Head(in) \in WhiteSyms THEN SkipSpace(Tail(in)) ELSE in

RECURSIVE SkipProcInst(_)
\* the input after the "?>" that closes a processing instruction, <<"EOF">>
\* when the input ends first
SkipProcInst(in) ==
    IF Len(in) < 2 THEN <<"EOF">>
    ELSE IF in[1] = "?" /\ in[2] = ">" THEN Drop(in, 2)
    ELSE SkipProcInst(Tail(in))

\* Decoder.RawToken: the token, the error, and the decoder after the call
RawToken(d) ==
    LET fail(e) == [t |-> NilToken, err |-> e, d |-> [d EXCEPT !.err = e]]
        give(tok, rest) == [t |-> tok, err |-> NoErr, d |-> [d EXCEPT !.in = rest]]
        in == d.in
    IN  IF d.err # NoErr THEN [t |-> NilToken, err |-> d.err, d |-> d]
        ELSE IF d.needClose THEN
            [t |-> EndElement(d.toClose), err |-> NoErr, d |-> [d EXCEPT !.needClose = FALSE]]
        ELSE IF in = <<>> THEN fail(EOF)
        ELSE IF Head(in) # "<" THEN
            LET x == LexText(in, <<>>)
            IN  IF ~x.ok THEN fail(SyntaxError(<<"invalid character entity">>))
                ELSE IF "NUL" \in Range(x.data)
                THEN fail(SyntaxError(<<"illegal character code">>))
                ELSE give(CharData(x.data), x.rest)
        ELSE IF Len(in) = 1 THEN fail(SyntaxError(<<"unexpected EOF">>))
        ELSE IF in[2] = "/" THEN
            IF Len(in) = 2 THEN fail(SyntaxError(<<"unexpected EOF">>))
            ELSE IF ~IsName(in[3]) THEN fail(SyntaxError(<<"expected element name after </">>))
            ELSE LET rest == SkipSpace(Drop(in, 3))
                 IN  IF rest = <<>> THEN fail(SyntaxError(<<"unexpected EOF">>))
                     ELSE IF Head(rest) # ">"
                     THEN fail(SyntaxError(<<"invalid characters between </ and >">>))
                     ELSE give(EndElement(in[3]), Tail(rest))
        ELSE IF in[2] = "?" THEN
            IF Len(in) = 2 THEN fail(SyntaxError(<<"unexpected EOF">>))
            ELSE IF ~IsName(in[3]) THEN fail(SyntaxError(<<"expected target name after <?">>))
            ELSE LET rest == SkipProcInst(Drop(in, 3))
                 IN  IF rest = <<"EOF">> THEN fail(SyntaxError(<<"unexpected EOF">>))
                     ELSE give(ProcInst(in[3]), rest)
        ELSE IF ~IsName(in[2]) THEN fail(SyntaxError(<<"expected element name after <">>))
        ELSE LET rest == SkipSpace(Drop(in, 2))
             IN  IF rest = <<>> THEN fail(SyntaxError(<<"unexpected EOF">>))
                 ELSE IF Head(rest) = ">" THEN give(StartElement(in[2]), Tail(rest))
                 ELSE IF Head(rest) = "/" THEN
                     IF Len(rest) = 1 THEN fail(SyntaxError(<<"unexpected EOF">>))
                     ELSE IF rest[2] # ">" THEN fail(SyntaxError(<<"expected /> in element">>))
                     ELSE [t |-> StartElement(in[2]), err |-> NoErr,
                           d |-> [d EXCEPT !.in = Drop(rest, 2), !.needClose = TRUE,
                                           !.toClose = in[2]]]
                 ELSE fail(SyntaxError(<<"expected attribute name in element">>))

(***************************************************************************)
(* The token reader (reader.go).  A reader is the decoder and the peeked   *)
(* token; every function returns the reader as the call leaves it.  Two    *)
(* history fields record what the reader did with the tokens of its        *)
(* stream: hist, the tokens RawToken returned, in order, each with what    *)
(* became of it ("given" to the caller of token(), "pending" in the        *)
(* pushback slot, "dropped" by trim), and lost, whether putToken replaced  *)
(* a pending token or put back a token other than the last one given.      *)
(***************************************************************************)
newReader(in) == [dec |-> NewDecoder(in), peek |-> NilToken, hist |-> <<>>, lost |-> FALSE]

\* a reset that rebinds the decoder and keeps the peeked token
reset_keepPeek(r, in) ==
    [dec |-> NewDecoder(in), peek |-> r.peek, hist |-> <<>>, lost |-> FALSE]

\* xmlReader.reset
reset(r, in) == [dec |-> NewDecoder(in), peek |-> NilToken, hist |-> <<>>, lost |-> FALSE]

\* the history with its last token marked st
Mark(hist, st) == IF hist = <<>> THEN hist ELSE [hist EXCEPT ![Len(hist)].st = st]

\* xmlReader.token
token(r) ==
    IF r.peek # NilToken
    THEN [t |-> r.peek, err |-> NoErr,
          r |-> [r EXCEPT !.peek = NilToken, !.hist = Mark(@, "given")]]
    ELSE Let(RawToken(r.dec), LAMBDA x :
             [t |-> x.t, err |-> x.err,
              r |-> [r EXCEPT !.dec = x.d,
                              !.hist = IF x.t = NilToken THEN @
                                       ELSE Append(@, [t |-> x.t, st |-> "given"])]])

\* xmlReader.putToken
putToken(r, t) ==
    [r EXCEPT !.peek = t,
              !.lost = \/ @
                       \/ r.peek # NilToken
                       \/ t # NilToken /\ (r.hist = <<>> \/ Last(r.hist) # [t |-> t, st |-> "given"]),
              !.hist = IF t = NilToken THEN @ ELSE Mark(@, "pending")]

\* the token that trim does not put back is dropped
discard(r) == [r EXCEPT !.hist = Mark(@, "dropped")]

\* a test that takes every text for blank
IsBlank_any(s) == TRUE

\* strings.TrimSpace(s) == ""
IsBlank(s) == \A i \in 1..Len(s) : s[i] \in WhiteSyms

\* a trim that skips nothing
trim_keepBlank(r) == r

RECURSIVE trim(_)
\* xmlReader.trim
trim(r) ==
    Let(token(r), LAMBDA x :
        IF x.t.type = "CharData" /\ IsBlank(x.t.data) THEN trim(discard(x.r))
        ELSE putToken(x.r, x.t))

\* xmlReader.nextText
nextText(r) ==
    Let(token(r), LAMBDA x :
        IF x.t = NilToken THEN [s |-> <<>>, err |-> x.err, r |-> x.r]
        ELSE IF x.t.type = "CharData" THEN [s |-> x.t.data, err |-> NoErr, r |-> x.r]
        ELSE [s |-> <<>>, err |-> Errorf(<<"expected chardata">>), r |-> putToken(x.r, x.t)])

\* xmlReader.nextStart
nextStart(r) ==
    Let(token(trim(r)), LAMBDA x :
        IF x.t = NilToken THEN [se |-> StartElement(""), err |-> x.err, r |-> x.r]
        ELSE IF x.t.type = "StartElement" THEN [se |-> x.t, err |-> NoErr, r |-> x.r]
        ELSE [se |-> StartElement(""), err |-> Errorf(<<"expected start element">>),
              r |-> putToken(x.r, x.t)])

\* xmlReader.nextEnd
nextEnd(r) ==
    Let(token(trim(r)), LAMBDA x :
        IF x.t = NilToken THEN [end |-> EndElement(""), err |-> x.err, r |-> x.r]
        ELSE IF x.t.type = "EndElement" THEN [end |-> x.t, err |-> NoErr, r |-> x.r]
        ELSE [end |-> EndElement(""), err |-> Errorf(<<"expected end element">>),
              r |-> putToken(x.r, x.t)])

\* xmlReader.expectStart
expectStart(r, name) ==
    Let(nextStart(r), LAMBDA x :
        IF x.err # NoErr THEN [err |-> x.err, r |-> x.r]
        ELSE IF x.se.name # name
        THEN [err |-> Errorf(<<"parsing error. expected start element">>),
              r |-> putToken(x.r, x.se)]
        ELSE [err |-> NoErr, r |-> x.r])

\* xmlReader.expectEnd
expectEnd(r, name) ==
    Let(nextEnd(r), LAMBDA x :
        IF x.err # NoErr THEN [err |-> x.err, r |-> x.r]
        ELSE IF x.end.name # name
        THEN [err |-> Errorf(<<"parsing error. expected end element">>),
              r |-> putToken(x.r, x.end)]
        ELSE [err |-> NoErr, r |-> x.r])

\* xmlReader.readHeader
readHeader(r) ==
    Let(token(trim(r)), LAMBDA x :
        IF x.err # NoErr THEN [err |-> x.err, r |-> x.r]
        ELSE IF x.t.type = "ProcInst" /\ x.t.target = "xml" THEN [err |-> NoErr, r |-> x.r]
        ELSE [err |-> NoErr, r |-> putToken(x.r, x.t)])

boolDecodeMap == {<<"1">>, <<"true">>, <<"0">>, <<"false">>}

\* a decoder that takes "1" alone for true
boolDecode_oneOnly(s) == s = <<"1">>

boolDecode(s) == s \in {<<"1">>, <<"true">>}

\* the err that readPrimitive returns after the loop over dateTimeFormats:
\* nil once a layout has parsed, else the error of the last time.Parse
dateTimeError(p) == IF p.ok THEN NoErr ELSE ParseError

\* the switch of readPrimitive on the tag name, after text s was read
decodePrimitive(tag, s, rpc) ==
    CASE tag = "string" -> [rpc |-> rpcValue(stringKind, GoString(s)), err |-> NoErr]
      [] tag = "boolean" ->
            IF s \in boolDecodeMap
            THEN [rpc |-> rpcValue(booleanKind, GoBool(boolDecode(s))), err |-> NoErr]
            ELSE [rpc |-> rpcValue(rpc.kind, GoBool(FALSE)),
                  err |-> faultNew(InvalidRequest, <<"error writing boolean '">> \o s \o <<"'">>)]
      [] tag \in {"int", "i4"} ->
            Let(Atoi(s), LAMBDA a :
                IF a.ok THEN [rpc |-> rpcValue(intKind, GoInt("int", a.n)), err |-> NoErr]
                ELSE [rpc |-> rpcValue(rpc.kind, GoInt("int", 0)),
                      err |-> faultNew(InvalidRequest, <<"error writing int '">> \o s \o <<"'">>)])
      [] tag = "double" ->
            Let(ParseFloat(s), LAMBDA f :
                IF f.ok THEN [rpc |-> rpcValue(doubleKind, GoFloat("float64", f.d)), err |-> NoErr]
                ELSE [rpc |-> rpcValue(rpc.kind, GoFloat("float64", f.d)),
                      err |-> faultNew(InvalidRequest, <<"error writing double '">> \o s \o <<"'">>)])
      [] tag = "base64" ->
            Let(B64Decode(s), LAMBDA b :
                [rpc |-> rpcValue(base64Kind, GoBytes(b.bytes)),
                 err |-> IF b.ok THEN NoErr ELSE CorruptInputError])
      [] tag = "dateTime.iso8601" ->
            Let(ParseFormats(dateTimeFormats, s), LAMBDA p :
                [rpc |-> rpcValue(dateTimeKind, GoTime(p.t)), err |-> dateTimeError(p)])
      [] OTHER -> [rpc |-> rpc, err |-> Errorf(<<"unhandled tag">>)]

\* xmlReader.readPrimitive
readPrimitive(r, rpc) ==
    Let(nextStart(r), LAMBDA a :
        IF a.err # NoErr THEN [r |-> a.r, err |-> a.err, rpc |-> rpc]
        ELSE
        Let(nextText(a.r), LAMBDA c :
        Let(expectEnd(c.r, a.se.name), LAMBDA e :
            IF e.err # NoErr THEN [r |-> e.r, err |-> e.err, rpc |-> rpc]
            ELSE
            Let(decodePrimitive(a.se.name, c.s, rpc), LAMBDA v :
                [r |-> e.r, err |-> v.err, rpc |-> v.rpc]))))

RECURSIVE readValue(_, _)
RECURSIVE readArray(_, _)
RECURSIVE readArrayLoop(_, _)
RECURSIVE readStruct(_, _)
RECURSIVE readStructLoop(_, _)
RECURSIVE readMember(_)

\* the first two reads of readValue: the start of the value element, then
\* the start tag inside it (se, with serr the error of looking for it)
readValueStart(r) ==
    Let(expectStart(r, "value"), LAMBDA a :
        IF a.err # NoErr
        THEN [r |-> a.r, err |-> a.err, se |-> StartElement(""), serr |-> NoErr]
        ELSE Let(nextStart(a.r), LAMBDA b :
                 [r |-> b.r, err |-> NoErr, se |-> b.se, serr |-> b.err]))

\* xmlReader.readValue
readValue(r, rpc) ==
    Let(readValueStart(r), LAMBDA b :
        IF b.err # NoErr THEN [r |-> b.r, err |-> b.err, rpc |-> rpc]
        ELSE IF b.serr # NoErr THEN
            \* empty value or unwrapped string
            Let(nextText(b.r), LAMBDA c :
                IF c.err # NoErr THEN
                    Let(expectEnd(c.r, "value"), LAMBDA e :
                        [r |-> e.r, err |-> e.err, rpc |-> rpc])
                ELSE [r |-> c.r, err |-> NoErr,
                      rpc |-> rpcValue(stringKind, GoString(c.s))])
        ELSE IF b.se.name \notin valueTagSet THEN
            [r |-> b.r, err |-> Errorf(<<"parsing error. expected valid rpc value element">>),
             rpc |-> rpc]
        ELSE
            Let(CASE b.se.name = "array" -> readArray(putToken(b.r, b.se), rpc)
                  [] b.se.name = "struct" -> readStruct(putToken(b.r, b.se), rpc)
                  [] OTHER -> readPrimitive(putToken(b.r, b.se), rpc),
                LAMBDA v :
                IF v.err # NoErr THEN v
                ELSE Let(expectEnd(v.r, "value"), LAMBDA e :
                         [r |-> e.r, err |-> e.err, rpc |-> v.rpc])))

\* the for loop of readArray; done tells that the loop ended by break
readArrayLoop(r, array) ==
    Let(nextStart(r), LAMBDA b :
        IF b.err # NoErr THEN [r |-> b.r, err |-> NoErr, array |-> array, done |-> TRUE]
        ELSE IF b.se.name # "value" THEN
            [r |-> b.r, err |-> Errorf(<<"parsing error. invalid element">>), array |-> array,
             done |-> FALSE]
        ELSE Let(readValue(putToken(b.r, b.se), ZeroRpcValue), LAMBDA v :
                 IF v.err # NoErr
                 THEN [r |-> v.r, err |-> v.err, array |-> array, done |-> FALSE]
                 ELSE readArrayLoop(v.r, Append(array, v.rpc))))

\* xmlReader.readArray
readArray(r, rpc) ==
    Let(expectStart(nextStart(r).r, "data"), LAMBDA a :
        IF a.err # NoErr THEN [r |-> a.r, err |-> a.err, rpc |-> rpc]
        ELSE
        Let(readArrayLoop(a.r, <<>>), LAMBDA l :
            IF ~l.done THEN [r |-> l.r, err |-> l.err, rpc |-> rpc]
            ELSE
            Let(expectEnd(l.r, "data"), LAMBDA e1 :
                IF e1.err # NoErr
                THEN [r |-> e1.r, err |-> e1.err, rpc |-> rpcValue(arrayKind, GoArray(l.array))]
                ELSE
                Let(expectEnd(e1.r, "array"), LAMBDA e2 :
                    [r |-> e2.r, err |-> e2.err,
                     rpc |-> rpcValue(arrayKind, GoArray(l.array))]))))

\* the start of a member and its name element, as the for loop of
\* readStruct reads them: done tells that there is no further member
readMemberName(r) ==
    Let(expectStart(r, "member"), LAMBDA m :
        IF m.err # NoErr THEN [r |-> m.r, err |-> NoErr, done |-> TRUE, s |-> <<>>]
        ELSE
        Let(expectStart(m.r, "name"), LAMBDA n :
            IF n.err # NoErr THEN [r |-> n.r, err |-> n.err, done |-> FALSE, s |-> <<>>]
            ELSE
            Let(nextText(n.r), LAMBDA t :
                IF t.err # NoErr THEN [r |-> t.r, err |-> t.err, done |-> FALSE, s |-> <<>>]
                ELSE
                Let(expectEnd(t.r, "name"), LAMBDA e :
                    [r |-> e.r, err |-> e.err, done |-> FALSE, s |-> t.s]))))

\* one pass through the body of the for loop of readStruct: done tells that
\* the loop ended by break, err that it ended by return
readMember(r) ==
    Let(readMemberName(r), LAMBDA n :
        IF n.done \/ n.err # NoErr THEN [r |-> n.r, err |-> n.err, done |-> n.done]
        ELSE
        Let(readValue(n.r, ZeroRpcValue), LAMBDA v :
            IF v.err # NoErr THEN [r |-> v.r, err |-> v.err, done |-> FALSE]
            ELSE
            Let(expectEnd(v.r, "member"), LAMBDA f :
                IF f.err # NoErr THEN [r |-> f.r, err |-> f.err, done |-> FALSE]
                ELSE [r |-> f.r, err |-> NoErr, done |-> FALSE,
                      entry |-> rpcEntry(n.s, v.rpc)])))

\* the for loop of readStruct
readStructLoop(r, members) ==
    Let(readMember(r), LAMBDA x :
        IF "entry" \in DOMAIN x
        THEN readStructLoop(x.r, Append(members, x.entry))
        ELSE [r |-> x.r, err |-> x.err, members |-> members, done |-> x.done])

\* xmlReader.readStruct
readStruct(r, rpc) ==
    Let(readStructLoop(nextStart(r).r, <<>>), LAMBDA l :
        IF ~l.done THEN [r |-> l.r, err |-> l.err, rpc |-> rpc]
        ELSE
        Let(expectEnd(l.r, "struct"), LAMBDA e :
            [r |-> e.r, err |-> e.err, rpc |-> rpcValue(structKind, GoMembers(l.members))]))

\* one pass through the body of the for loop of readParams: done tells that
\* the loop ended by break, err that it ended by return
readParam(r) ==
    Let(expectStart(r, "param"), LAMBDA p :
        IF p.err # NoErr THEN [r |-> p.r, err |-> NoErr, add |-> <<>>, done |-> TRUE]
        ELSE
        Let(readValue(p.r, ZeroRpcValue), LAMBDA v :
            IF v.err # NoErr
            THEN [r |-> v.r, err |-> v.err, add |-> <<>>, done |-> FALSE]
            ELSE
            Let(expectEnd(v.r, "param"), LAMBDA e :
                [r |-> e.r, err |-> e.err, add |-> <<v.rpc>>, done |-> FALSE])))

RECURSIVE readParamsLoop(_, _)
\* the for loop of readParams
readParamsLoop(r, params) ==
    Let(readParam(r), LAMBDA x :
        IF x.err = NoErr /\ ~x.done
        THEN readParamsLoop(x.r, params \o x.add)
        ELSE [r |-> x.r, err |-> x.err, params |-> params \o x.add, done |-> x.done])

\* xmlReader.readParams
readParams(r, params) ==
    Let(expectStart(r, "params"), LAMBDA a :
        IF a.err # NoErr THEN [r |-> a.r, err |-> a.err, params |-> params]
        ELSE
        Let(readParamsLoop(a.r, params), LAMBDA l :
            IF ~l.done THEN [r |-> l.r, err |-> l.err, params |-> l.params]
            ELSE
            Let(expectEnd(l.r, "params"), LAMBDA e :
                [r |-> e.r, err |-> e.err, params |-> l.params])))

\* var call methodCall / var res methodResponse
ZeroCall == [Method |-> <<>>, Params |-> <<>>]

ZeroResponse == [Params |-> <<>>, Fault |-> ZeroRpcValue]

\* the reads of readCall that come before the parameters: the header, the
\* start of methodCall and the methodName element
readMethodName(r, rpc) ==
    Let(readHeader(r), LAMBDA h :
        IF h.err # NoErr THEN [r |-> h.r, err |-> h.err, rpc |-> rpc]
        ELSE
        Let(expectStart(h.r, "methodCall"), LAMBDA a :
            IF a.err # NoErr THEN [r |-> a.r, err |-> a.err, rpc |-> rpc]
            ELSE
            Let(expectStart(a.r, "methodName"), LAMBDA b :
                IF b.err # NoErr THEN [r |-> b.r, err |-> b.err, rpc |-> rpc]
                ELSE
                Let(nextText(b.r), LAMBDA t :
                    IF t.err # NoErr
                    THEN [r |-> t.r, err |-> t.err, rpc |-> [rpc EXCEPT !.Method = t.s]]
                    ELSE
                    Let(expectEnd(t.r, "methodName"), LAMBDA e :
                        [r |-> e.r, err |-> e.err, rpc |-> [rpc EXCEPT !.Method = t.s]])))))

\* xmlReader.readCall
readCall(r, rpc) ==
    Let(readMethodName(r, rpc), LAMBDA m :
        IF m.err # NoErr THEN m
        ELSE
        Let(readParams(m.r, rpc.Params), LAMBDA p :
            IF p.err # NoErr
            THEN [r |-> p.r, err |-> p.err,
                  rpc |-> [Method |-> m.rpc.Method, Params |-> p.params]]
            ELSE
            Let(expectEnd(p.r, "methodCall"), LAMBDA f :
                [r |-> f.r, err |-> f.err,
                 rpc |-> [Method |-> m.rpc.Method, Params |-> p.params]])))

\* xmlReader.readResponse
readResponse(r, rpc) ==
    Let(readHeader(r), LAMBDA h :
        IF h.err # NoErr THEN [r |-> h.r, err |-> h.err, rpc |-> rpc]
        ELSE
        Let(expectStart(h.r, "methodResponse"), LAMBDA a :
            IF a.err # NoErr THEN [r |-> a.r, err |-> a.err, rpc |-> rpc]
            ELSE
            Let(readParams(a.r, rpc.Params), LAMBDA p :
                IF p.err # NoErr /\ p.err # EOF THEN
                    Let(expectStart(p.r, "fault"), LAMBDA f :
                        IF f.err # NoErr
                        THEN [r |-> f.r, err |-> f.err, rpc |-> [rpc EXCEPT !.Params = p.params]]
                        ELSE
                        Let(readValue(f.r, rpc.Fault), LAMBDA v :
                            IF v.err # NoErr
                            THEN [r |-> v.r, err |-> v.err,
                                  rpc |-> [Params |-> p.params, Fault |-> v.rpc]]
                            ELSE
                            Let(expectEnd(v.r, "fault"), LAMBDA g :
                                IF g.err # NoErr
                                THEN [r |-> g.r, err |-> g.err,
                                      rpc |-> [Params |-> p.params, Fault |-> v.rpc]]
                                ELSE
                                Let(expectEnd(g.r, "methodResponse"), LAMBDA z :
                                    [r |-> z.r, err |-> z.err,
                                     rpc |-> [Params |-> p.params, Fault |-> v.rpc]]))))
                ELSE
                    Let(expectEnd(p.r, "methodResponse"), LAMBDA z :
                        [r |-> z.r, err |-> z.err,
                         rpc |-> [rpc EXCEPT !.Params = p.params]]))))

(***************************************************************************)
(* Go types, as reflect describes them.  A type is named by its Go name;   *)
(* the named record types are those of the package and of its tests.       *)
(***************************************************************************)
IntTypes ==
    {"int", "int8", "int16", "int32", "int64", "uint", "uint8", "uint16", "uint32", "uint64"}

FloatTypes == {"float32", "float64"}

SliceTypes ==
    {"[]uint8", "[]int", "[]int64", "[]string", "[]interface {}", "[][]int", "[]person",
     "[]friend", "[]rpcValue", "[]rpcEntry"}

StructTypes == {"person", "Fault", "struct {}", "Args", "friend", "shadowed", "time.Time"}

MapTypes == {"map[string]string", "map[string]int"}

PtrTypes == {"*int", "*person"}

\* reflect.Type.Kind
TypeKind(t) ==
    CASE t \in IntTypes \cup FloatTypes \cup {"bool", "string"} -> t
      [] t \in SliceTypes -> "slice"
      [] t \in StructTypes -> "struct"
      [] t \in MapTypes -> "map"
      [] t \in PtrTypes -> "ptr"
      [] t = "interface {}" -> "interface"
      [] OTHER -> "invalid"

\* reflect.Type.Elem of a slice, map or pointer type
TypeElem(t) ==
    CASE t = "[]uint8" -> "uint8"
      [] t = "[]int" -> "int"
      [] t = "[]int64" -> "int64"
      [] t = "[]string" -> "string"
      [] t = "[]interface {}" -> "interface {}"
      [] t = "[][]int" -> "[]int"
      [] t = "[]person" -> "person"
      [] t = "[]friend" -> "friend"
      [] t = "[]rpcValue" -> "rpcValue"
      [] t = "[]rpcEntry" -> "rpcEntry"
      [] t = "map[string]string" -> "string"
      [] t = "map[string]int" -> "int"
      [] t = "*int" -> "int"
      [] t = "*person" -> "person"

Field(name, hasTag, tag, type, exported) ==
    [Name |-> name, HasTag |-> hasTag, Tag |-> tag, Type |-> type, Exported |-> exported]

\* reflect.Type.Field(i) for i in 0..NumField()-1: name, rpc tag, type
TypeFields(t) ==
    CASE t = "person" ->
            <<Field(<<"Name">>, TRUE, <<"name">>, "string", TRUE),
              Field(<<"Age">>, TRUE, <<"age">>, "int", TRUE)>>
      [] t = "Fault" ->
            <<Field(<<"Code">>, TRUE, <<"faultCode">>, "int", TRUE),
              Field(<<"Message">>, TRUE, <<"faultString">>, "string", TRUE)>>
      [] t = "Args" ->
            <<Field(<<"A">>, FALSE, <<>>, "int", TRUE),
              Field(<<"B">>, FALSE, <<>>, "int", TRUE)>>
      [] t = "friend" ->
            <<Field(<<"Name">>, FALSE, <<>>, "string", TRUE),
              Field(<<"Best">>, FALSE, <<>>, "person", TRUE),
              Field(<<"Friends">>, FALSE, <<>>, "[]friend", TRUE)>>
      [] t = "shadowed" ->
            \* struct { A int `rpc:"B"`; B int }: the tag of A is the name of B
            <<Field(<<"A">>, TRUE, <<"B">>, "int", TRUE),
              Field(<<"B">>, FALSE, <<>>, "int", TRUE)>>
      [] t = "time.Time" ->
            <<Field(<<"wall">>, FALSE, <<>>, "uint64", FALSE),
              Field(<<"ext">>, FALSE, <<>>, "int64", FALSE),
              Field(<<"loc">>, FALSE, <<>>, "*Location", FALSE)>>
      [] OTHER -> <<>>

\* composite Go values
GoSlice(t, elems) == [t |-> t, elems |-> elems]

GoStruct(t, fields) == [t |-> t, fields |-> fields]

\* a map with its entries in the order MapKeys returns them
GoMap(t, keys, vals) == [t |-> t, keys |-> keys, vals |-> vals]

GoPtr(t, isNil, elem) == [t |-> t, isNil |-> isNil, elem |-> elem]

RECURSIVE Zero(_)
RECURSIVE ZeroFields(_)
\* reflect.Zero(t).Interface(); the nil interface for an interface type
Zero(t) ==
    CASE t = "bool" -> GoBool(FALSE)
      [] t \in IntTypes -> GoInt(t, 0)
      [] t \in FloatTypes -> GoFloat(t, Float(FALSE, 0, <<>>))
      [] t = "string" -> GoString(<<>>)
      [] t = "[]uint8" -> GoBytes(<<>>)
      [] t = "time.Time" -> GoTime(ZeroTime)
      [] t \in SliceTypes \ {"[]uint8"} -> GoSlice(t, <<>>)
      [] t \in StructTypes \ {"time.Time"} -> GoStruct(t, ZeroFields(TypeFields(t)))
      [] t \in MapTypes -> GoMap(t, <<>>, <<>>)
      [] t \in PtrTypes -> GoPtr(t, TRUE, NilValue)
      [] OTHER -> NilValue

ZeroFields(fs) == IF fs = <<>> THEN <<>> ELSE <<Zero(Head(fs).Type)>> \o ZeroFields(Tail(fs))

\* Fault as a Go value / back to the error value
FaultValue(f) == GoStruct("Fault", <<GoInt("int", f.Code), GoString(f.Message)>>)

FaultOf(v) == Fault(v.fields[1].n, v.fields[2].s)

(***************************************************************************)
(* The reflective mapper (message.go).                                     *)
(***************************************************************************)
\* the outcome of a call that panics
PanicValue == rpcValue("panic", NilValue)

\* the types of the case "int, int64, int32, int16, uint, uint64, ..." of makeValue
makeValueIntTypes ==
    {"int", "int64", "int32", "int16", "uint", "uint64", "uint32", "uint16", "uint8"}

RECURSIVE makeValue(_)
RECURSIVE makeValues(_)
RECURSIVE makeMapMembers(_, _)
RECURSIVE makeFieldMembers(_, _)

\* makeValue
makeValue(value0) ==
    IF value0 = NilValue THEN ZeroRpcValue
    ELSE IF TypeKind(value0.t) = "ptr" /\ value0.isNil THEN PanicValue
    ELSE
    LET value == IF TypeKind(value0.t) = "ptr" THEN value0.elem ELSE value0
        t == value.t
    IN  CASE t = "bool" -> rpcValue(booleanKind, value)
          [] t \in makeValueIntTypes -> rpcValue(intKind, value)
          [] t \in {"float64", "float32"} -> rpcValue(doubleKind, value)
          [] t = "string" -> rpcValue(stringKind, value)
          [] t = "[]uint8" -> rpcValue(base64Kind, value)
          [] t = "time.Time" -> rpcValue(dateTimeKind, value)
          [] OTHER ->
                CASE TypeKind(t) = "slice" ->
                        rpcValue(arrayKind, GoArray(makeValues(value.elems)))
                  [] TypeKind(t) = "map" ->
                        rpcValue(structKind, GoMembers(makeMapMembers(value.keys, value.vals)))
                  [] TypeKind(t) = "struct" ->
                        rpcValue(structKind,
                                 GoMembers(makeFieldMembers(TypeFields(t), value.fields)))
                  [] OTHER -> rpcValue(nilKind, value)

\* for i := 0; i < size; i++ { array = append(array, makeValue(refVal.Index(i)...)) }
makeValues(elems) ==
    IF elems = <<>> THEN <<>> ELSE <<makeValue(Head(elems))>> \o makeValues(Tail(elems))

\* for _, key := range mapKeys: the name is fmt.Sprintf("%s", key)
makeMapMembers(keys, vals) ==
    IF keys = <<>> THEN <<>>
    ELSE <<rpcEntry(Head(keys), makeValue(Head(vals)))>>
         \o makeMapMembers(Tail(keys), Tail(vals))

\* for i := 0; i < nFields; i++: the name is the rpc tag when there is one
makeFieldMembers(fs, vals) ==
    IF fs = <<>> THEN <<>>
    ELSE <<rpcEntry(IF Head(fs).HasTag THEN Head(fs).Tag ELSE Head(fs).Name,
                    makeValue(Head(vals)))>>
         \o makeFieldMembers(Tail(fs), Tail(vals))

\* makeParams
makeParams(args) == makeValues(args)

\* makeCall
makeCall(method, params) == [Method |-> method, Params |-> makeParams(params)]

(***************************************************************************)
(* A payload of writeResponse is a Go value or an error value.             *)
(***************************************************************************)
IsErrorValue(v) == "type" \in DOMAIN v

\* error.Error()
ErrorText(e) ==
    IF e.type = "Fault" THEN Itoa(e.Code) \o <<":", " ">> \o e.Message ELSE e.msg

\* makeResponse
makeResponse(value) ==
    IF IsErrorValue(value) /\ value.type = "Fault"
    THEN [Params |-> <<>>, Fault |-> makeValue(FaultValue(value))]
    ELSE IF IsErrorValue(value)
    THEN [Params |-> <<>>,
          Fault |-> makeValue(FaultValue(
                        faultNew(InternalError, SprintfNoArgs(ErrorText(value)))))]
    ELSE [Params |-> makeParams(<<value>>), Fault |-> ZeroRpcValue]

\* the elements of a slice value / the slice value of elements
SliceElems(v) ==
    IF v.t = "[]uint8" THEN [i \in 1..Len(v.bytes) |-> GoInt("uint8", v.bytes[i])]
    ELSE v.elems

MkSlice(t, elems) ==
    IF t = "[]uint8" THEN GoBytes([i \in 1..Len(elems) |-> elems[i].n])
    ELSE GoSlice(t, elems)

\* a projection that replaces what the slice holds
AppendSlice_replace(T, cur, elems) == MkSlice(T, elems)

\* reflect.AppendSlice(refVal, slice)
AppendSlice(T, cur, elems) == MkSlice(T, SliceElems(cur) \o elems)

RECURSIVE nameMap_nameOnly(_, _)
\* a lookup by the fields' own names, their tags ignored
nameMap_nameOnly(fs, name) ==
    IF fs = <<>> THEN <<>>
    ELSE IF Last(fs).Name = name THEN name
    ELSE nameMap_nameOnly(Front(fs), name)

\* the nameMap of writeTo: the Go name of the field a member name selects,
\* <<>> when there is none; a later field replaces an earlier one
RECURSIVE nameMap(_, _)
nameMap(fs, name) ==
    IF fs = <<>> THEN <<>>
    ELSE LET f == Last(fs)
         IN  IF (IF f.HasTag THEN f.Tag ELSE f.Name) = name THEN f.Name
             ELSE nameMap(Front(fs), name)

\* the index of the field called name, 0 when FieldByName finds none
RECURSIVE FieldIndex(_, _)
FieldIndex(fs, name) ==
    IF fs = <<>> THEN 0
    ELSE IF Last(fs).Name = name THEN Len(fs)
    ELSE FieldIndex(Front(fs), name)

RECURSIVE writeTo(_, _, _, _, _)
RECURSIVE writeItems(_, _)
RECURSIVE writeMembersTo(_, _, _, _)

\* rpcValue.writeTo(v) where v points to a slot of type T holding cur.
\* viaValue: v is a *reflect.Value (the calls writeTo makes on itself);
\* canSet: the slot is settable.  val is the slot after the call.
writeTo(r, T, cur, viaValue, canSet) ==
    LET fail(msg) == [err |-> faultNew(InternalError, msg), val |-> cur]
        set(v) == [err |-> NoErr, val |-> v]
    IN  IF isEmpty(r) THEN set(cur)
        ELSE IF ~viaValue /\ TypeKind(T) = "interface"
        THEN fail(<<"error writing value. cannot write to type 'ptr'">>)
        ELSE IF ~canSet THEN fail(<<"error writing to value. cannot set value">>)
        ELSE CASE r.kind = arrayKind ->
                    IF T = "interface {}" THEN set(r.value)
                    ELSE IF TypeKind(T) # "slice"
                    THEN fail(<<"error writing value. expected type slice got '", TypeKind(T), "'">>)
                    ELSE Let(writeItems(r.value.array, TypeElem(T)), LAMBDA w :
                             IF w.err # NoErr THEN [err |-> w.err, val |-> cur]
                             ELSE set(AppendSlice(T, cur, w.elems)))
               [] r.kind = structKind ->
                    IF TypeKind(T) # "struct"
                    THEN fail(<<"error writing struct. expected type struct got '", TypeKind(T), "'">>)
                    ELSE writeMembersTo(r.value.members, T, cur, canSet)
               [] OTHER ->
                    IF r.value.t # T /\ T # "interface {}"
                    THEN fail(<<"type mismatch: ", r.value.t, " != ", T>>)
                    ELSE set(r.value)

\* for i, item := range array { m := slice.Index(i); item.writeTo(&m) }
writeItems(items, ET) ==
    IF items = <<>> THEN [err |-> NoErr, elems |-> <<>>]
    ELSE Let(writeTo(Head(items), ET, Zero(ET), TRUE, TRUE), LAMBDA w :
             IF w.err # NoErr THEN [err |-> w.err, elems |-> <<>>]
             ELSE Let(writeItems(Tail(items), ET), LAMBDA rest :
                      [err |-> rest.err, elems |-> <<w.val>> \o rest.elems]))

\* for _, member := range members { ... member.Value.writeTo(&fieldVal) }:
\* each member is written into the record in place
writeMembersTo(members, T, cur, canSet) ==
    IF members = <<>> THEN [err |-> NoErr, val |-> cur]
    ELSE Let(nameMap(TypeFields(T), Head(members).Name), LAMBDA fieldName :
         Let(FieldIndex(TypeFields(T), fieldName), LAMBDA i :
             IF i = 0 THEN
                 [err |-> faultNew(InternalError,
                                   <<"error writing struct. unknown field ">> \o fieldName),
                  val |-> cur]
             ELSE
             Let(writeTo(Head(members).Value, TypeFields(T)[i].Type, cur.fields[i], TRUE,
                         canSet /\ TypeFields(T)[i].Exported), LAMBDA w :
                 IF w.err # NoErr THEN [err |-> w.err, val |-> [cur EXCEPT !.fields[i] = w.val]]
                 ELSE writeMembersTo(Tail(members), T, [cur EXCEPT !.fields[i] = w.val],
                                     canSet))))

\* a destination argument: a pointer to a variable of type T holding val,
\* or (ptr = FALSE) the variable passed by value
Dest(T, val) == [ptr |-> TRUE, T |-> T, val |-> val]

\* rpcValue.writeTo called with a destination argument
writeToDest(r, dest) ==
    IF isEmpty(r) THEN [err |-> NoErr, val |-> dest.val]
    ELSE IF ~dest.ptr
    THEN [err |-> faultNew(InternalError, <<"error writing value. expected pointer got '",
                                            TypeKind(dest.T), "'">>),
          val |-> dest.val]
    ELSE writeTo(r, dest.T, dest.val, FALSE, TRUE)

\* a projection that takes the first parameter whatever their number
writeParamsTo_firstOnly(params, dest) ==
    IF Len(params) = 0 THEN [err |-> NoErr, val |-> dest.val]
    ELSE writeToDest(params[1], dest)

\* rpcParams.writeTo
writeParamsTo(params, dest) ==
    IF Len(params) = 0 THEN [err |-> NoErr, val |-> dest.val]
    ELSE IF ~dest.ptr
    THEN [err |-> faultNew(InternalError, <<"invalid receiver type. expected pointer but got '",
                                            TypeKind(dest.T), "'">>),
          val |-> dest.val]
    ELSE IF Len(params) = 1 THEN writeToDest(params[1], dest)
    ELSE writeTo(rpcValue(arrayKind, GoArray(params)), dest.T, dest.val, TRUE, TRUE)

(***************************************************************************)
(* The codec (codec.go).  The stream of a read is an in-memory buffer read *)
(* byte by byte, so a read leaves in it what the parser has not consumed.  *)
(***************************************************************************)
\* checkPointer
checkPointer(dest) ==
    IF dest.ptr THEN NoErr
    ELSE faultNew(InternalError, <<"error decoding to value. expected pointer got '",
                                   TypeKind(dest.T), "'">>)

\* SyntaxError.Error()
SyntaxErrorText(e) == <<"XML syntax error on line: ">> \o e.msg

\* the tail of readRPC: what the caller gets for the reader's error
readRPCError(err) ==
    IF err = NoErr \/ err = EOF THEN NoErr
    ELSE IF err.type = "*xml.SyntaxError"
    THEN faultNew(MalformedInput, SprintfNoArgs(SyntaxErrorText(err)))
    ELSE err

\* Codec.writeRPC(w, rpc) for a methodCall, a methodResponse, an rpcValue
writeRPCCall(call) == writeCall(call)

writeRPCResponse(res) == writeResponse(res)

writeRPCValue(rpc) == writeValue(rpc)

\* Codec.writeRPC(w, v) for any other value
writeRPC(v) == writeValue(makeValue(v))

\* Codec.writeRequest
writeRequest(method, params) == writeRPCCall(makeCall(method, params))

\* Codec.writeResponse
codecWriteResponse(payload) == writeRPCResponse(makeResponse(payload))

\* Codec.readRPC(r, &call)
readRPCCall(rd, in, call) ==
    Let(readCall(reset(rd, in), call), LAMBDA x :
        [rd |-> x.r, err |-> readRPCError(x.err), call |-> x.rpc])

\* Codec.readRPC(r, &res)
readRPCResponse(rd, in, res) ==
    Let(readResponse(reset(rd, in), res), LAMBDA x :
        [rd |-> x.r, err |-> readRPCError(x.err), res |-> x.rpc])

\* Codec.readRPC(r, &rpc) for an rpcValue
readRPCValue(rd, in, rpc) ==
    Let(readValue(reset(rd, in), rpc), LAMBDA x :
        [rd |-> x.r, err |-> readRPCError(x.err), rpc |-> x.rpc])

\* Codec.readRPC(r, dest) for any other destination
readRPC(rd, in, dest) ==
    IF checkPointer(dest) # NoErr
    THEN [rd |-> rd, err |-> checkPointer(dest), val |-> dest.val]
    ELSE Let(readValue(reset(rd, in), ZeroRpcValue), LAMBDA x :
             IF x.err = NoErr \/ x.err = EOF
             THEN Let(writeToDest(x.rpc, dest), LAMBDA w :
                      [rd |-> x.r, err |-> readRPCError(w.err), val |-> w.val])
             ELSE [rd |-> x.r, err |-> readRPCError(x.err), val |-> dest.val])

\* Codec.readRequest(r, &method, params); method holds "" before the call
readRequest(rd, in, dest) ==
    IF checkPointer(dest) # NoErr
    THEN [rd |-> rd, err |-> checkPointer(dest), method |-> <<>>, val |-> dest.val]
    ELSE Let(readRPCCall(rd, in, ZeroCall), LAMBDA x :
             IF x.err # NoErr
             THEN [rd |-> x.rd, err |-> x.err, method |-> <<>>, val |-> dest.val]
             ELSE IF x.call.Method = <<>>
             THEN [rd |-> x.rd,
                   err |-> faultNew(InvalidRequest, <<"invalid method name ''">>),
                   method |-> <<>>, val |-> dest.val]
             ELSE Let(writeParamsTo(x.call.Params, dest), LAMBDA w :
                      [rd |-> x.rd, err |-> w.err, method |-> x.call.Method, val |-> w.val]))

\* Codec.readResponse(r, reply).  path tells which branch returned: "fault"
\* when the fault slot was projected into a Fault, "params" when the
\* parameters were projected into reply, "error" when reading failed.
codecReadResponse(rd, in, dest) ==
    IF checkPointer(dest) # NoErr
    THEN [rd |-> rd, err |-> checkPointer(dest), val |-> dest.val, path |-> "error",
          res |-> ZeroResponse]
    ELSE Let(readRPCResponse(rd, in, ZeroResponse), LAMBDA x :
             IF x.err # NoErr
             THEN [rd |-> x.rd, err |-> x.err, val |-> dest.val, path |-> "error",
                   res |-> x.res]
             ELSE IF ~isEmpty(x.res.Fault)
             THEN Let(writeToDest(x.res.Fault, Dest("Fault", Zero("Fault"))), LAMBDA w :
                      [rd |-> x.rd,
                       err |-> IF w.err # NoErr THEN w.err ELSE FaultOf(w.val),
                       val |-> dest.val, path |-> "fault", res |-> x.res])
             ELSE Let(writeParamsTo(x.res.Params, dest), LAMBDA w :
                      [rd |-> x.rd, err |-> w.err, val |-> w.val, path |-> "params",
                       res |-> x.res]))

(***************************************************************************)
(* The inputs of the operations.                                           *)
(***************************************************************************)
\* the longest text drawn over an alphabet
MaxTextLen == 2

BoundedSeqs(S, n) == UNION {[1..k -> S] : k \in 0..n}

\* characters of string payloads: a letter, a blank, a carriage return,
\* a markup character and a percent sign
StrChars == {"a", " ", "CR", "<", "%"}

\* further strings: the other escaped characters, a control character
ExtraStrings == {<<"&", ">">>, <<"'", "\"">>, <<"NUL">>, <<"a", "LF", "a">>}

Strings == BoundedSeqs(StrChars, MaxTextLen) \cup ExtraStrings

F(ip, fd) == GoFloat("float64", Float(FALSE, ip, fd))

UTC(Y, M, D, h, m, sec) == GoTime(Time(Y, M, D, h, m, sec, 0, 0))

Person(name, age) == GoStruct("person", <<GoString(name), GoInt("int", age)>>)

Friend(name, best, friends) ==
    GoStruct("friend", <<GoString(name), best, GoSlice("[]friend", friends)>>)

PrimitiveValues ==
    {GoBool(TRUE), GoBool(FALSE)}
    \cup {GoInt("int", n) : n \in {-5, 0, 20}}
    \cup {GoInt("int64", 7), GoInt("uint8", 200), GoInt("int8", 5)}
    \cup {F(1, <<2, 0, 1>>), F(3, <<1, 4, 2>>), F(0, <<>>), F(12, <<>>),
          F(0, <<0, 0, 0, 0, 0, 0, 1>>), F(0, <<1, 2, 3, 4, 5, 6, 7>>),
          GoFloat("float64", Float(TRUE, 2, <<5>>)), GoFloat("float32", Float(FALSE, 1, <<5>>))}
    \cup {GoString(s) : s \in Strings}
    \cup {GoBytes(<<>>), GoBytes(<<104>>), GoBytes(<<104, 101>>), GoBytes(<<0, 255, 16>>),
          GoBytes(<<104, 101, 108, 108, 111>>)}
    \cup {UTC(2004, 1, 1, 12, 30, 10), UTC(2005, 12, 24, 3, 30, 5), UTC(2024, 2, 29, 0, 0, 0)}

CompositeValues ==
    {GoSlice("[]interface {}", <<>>),
     GoSlice("[]int", <<GoInt("int", 1), GoInt("int", 2)>>),
     GoSlice("[]int", <<GoInt("int", 3)>>),
     GoSlice("[]string", <<GoString(<<"one">>), GoString(<<"two">>)>>),
     GoSlice("[]interface {}", <<GoSlice("[]int", <<GoInt("int", 1), GoInt("int", 2)>>)>>),
     GoSlice("[][]int", <<GoSlice("[]int", <<GoInt("int", 1)>>), GoSlice("[]int", <<>>)>>),
     GoSlice("[]int64", <<GoInt("int64", 9)>>),
     GoStruct("struct {}", <<>>),
     Person(<<"Gyedu">>, 35),
     Person(<<>>, 0),
     GoStruct("Args", <<GoInt("int", 3), GoInt("int", 3)>>),
     GoStruct("shadowed", <<GoInt("int", 1), GoInt("int", 2)>>),
     GoSlice("[]person", <<Person(<<"Roseline">>, 35), Person(<<"Odame">>, 25)>>),
     Friend(<<"Kofi">>, Person(<<"Richard">>, 0), <<>>),
     FaultValue(Fault(InternalError, <<"panic">>)),
     GoMap("map[string]string", <<>>, <<>>),
     GoMap("map[string]string", <<<<"firstname">>>>, <<GoString(<<"Kofi">>)>>),
     GoMap("map[string]int", <<<<"a">>, <<"b">>>>, <<GoInt("int", 1), GoInt("int", 2)>>),
     GoMap("map[string]int", <<<<"b">>, <<"a">>>>, <<GoInt("int", 2), GoInt("int", 1)>>),
     GoPtr("*int", FALSE, GoInt("int", 4)),
     GoPtr("*int", TRUE, NilValue)}

\* the values given to writeRPC
NativeValues == PrimitiveValues \cup CompositeValues

\* destination types tried besides the type of the value written
OtherDestTypes == {"int", "string", "interface {}", "[]interface {}", "person"}

\* payloads of writeResponse: values, faults and other errors
FaultPayloads ==
    {Fault(c, m) : c \in {InternalError, InvalidParams, 0}, m \in Strings}

ErrorPayloads == {Errorf(m) : m \in Strings}

ValuePayloads ==
    {NilValue, GoBool(TRUE), GoInt("int", 6), GoString(<<"a">>), Person(<<"Nana">>, 10),
     GoSlice("[]int", <<>>), GoSlice("[]int", <<GoInt("int", 1)>>), GoStruct("struct {}", <<>>)}

\* method names and argument lists of writeRequest
MethodNames == {<<"service.Do">>, <<"a">>, <<>>, <<" ">>}

ArgLists ==
    {<<>>, <<Person(<<"Nana">>, 10)>>, <<GoInt("int", 5)>>,
     <<GoInt("int", 5), GoInt("int", 9), GoInt("int", 7), GoInt("int", 5)>>,
     <<GoInt("int", 5), GoString(<<"hello">>), F(7, <<>>), GoSlice("[]int", <<GoInt("int", 1)>>)>>,
     <<GoBool(TRUE), Person(<<"Nana">>, 10)>>}

\* texts put inside a <boolean> element
BoolChars == {"1", "0", "true", "false", " ", "TRUE"}

BoolTexts == BoundedSeqs(BoolChars, MaxTextLen)

\* texts put inside a <dateTime.iso8601> element: the four layouts, and
\* texts none of them parses
DateTexts ==
    {<<"2", "0", "0", "4", "0", "1", "0", "1", "T", "1", "2", ":", "3", "0", ":", "1", "0">>,
     <<"2", "0", "0", "4", "-", "0", "1", "-", "0", "1", "T", "1", "2", ":", "3", "0", ":", "1", "0">>,
     <<"2", "0", "0", "4", "-", "0", "1", "-", "0", "1", "T", "1", "2", ":", "3", "0", ":", "1", "0",
       "-", "0", "5", ":", "0", "0">>,
     <<"2", "0", "0", "4", "-", "0", "1", "-", "0", "1", "T", "1", "2", ":", "3", "0", ":", "1", "0", "Z">>,
     <<"2", "0", "0", "4", "0", "1", "0", "1", "T", "2", ":", "3", "0", ":", "1", "0">>,
     <<"2", "0", "0", "4", "0", "2", "3", "0", "T", "1", "2", ":", "3", "0", ":", "1", "0">>,
     <<"2", "0", "0", "4", "0", "1", "0", "1">>,
     <<" ", "2", "0", "0", "4", "0", "1", "0", "1", "T", "1", "2", ":", "3", "0", ":", "1", "0">>,
     <<"2", "0", "0", "4", "0", "1", "0", "1", "T", "1", "2", ":", "3", "0", ":", "1", "0", "Z">>,
     <<"n", "o", "w">>,
     <<"1", "2", ":", "3", "0">>,
     <<>>}

\* values put in the fault slot of a response
FaultSlotValues ==
    {ZeroRpcValue,
     rpcValue(stringKind, GoString(<<"a">>)),
     rpcValue(stringKind, GoString(<<>>)),
     rpcValue(intKind, GoInt("int", 4)),
     rpcValue(booleanKind, GoBool(FALSE)),
     rpcValue(arrayKind, GoArray(<<>>)),
     rpcValue(arrayKind, GoArray(<<rpcValue(intKind, GoInt("int", 4))>>)),
     rpcValue(structKind, GoMembers(<<>>)),
     rpcValue(structKind, GoMembers(<<rpcEntry(<<"faultCode">>, rpcValue(intKind, GoInt("int", 4)))>>)),
     rpcValue(structKind, GoMembers(<<rpcEntry(<<"foo">>, rpcValue(intKind, GoInt("int", 4)))>>)),
     makeValue(FaultValue(Fault(InvalidParams, <<"a">>)))}

\* a response whose fault slot holds the value x
FaultWire(x) ==
    startTags("methodResponse") \o startTags("fault") \o writeValue(x)
        \o endTags("fault") \o endTags("methodResponse")

\* texts put inside the methodName element of a call
CallNames == {<<>>, <<"a">>, <<" ">>, <<"a", " ">>}

\* a call whose methodName element holds the text name
CallWire(name) ==
    startTags("methodCall") \o startTags("methodName") \o name \o endTags("methodName")
        \o startTags("params") \o endTags("params") \o endTags("methodCall")

\* a value element holding one element of the given tag and text
ValueWire(tag, text) ==
    startTags("value") \o startTags(tag) \o text \o endTags(tag) \o endTags("value")

\* texts put directly inside a value element: letters, digits and blanks
PlainTexts == BoundedSeqs({"a", "1", " ", "LF"}, MaxTextLen)

\* streams that are not what a writer of this package emits
OddWires ==
    {<<>>,
     <<"a">>,
     startTags("methodCall") \o startTags("foo"),
     startTags("methodCall"),
     startTags("methodResponse") \o startTags("foo"),
     startTags("methodResponse") \o <<"LF", " ">> \o startTags("foo"),
     startTags("methodResponse") \o startTags("params") \o startTags("param")
        \o startTags("value") \o startTags("foo"),
     startTags("methodResponse") \o startTags("params") \o startTags("param")
        \o ValueWire("int", <<"a">>) \o endTags("param") \o endTags("params")
        \o endTags("methodResponse"),
     startTags("methodResponse") \o startTags("params") \o startTags("param")
        \o ValueWire("base64", <<"*">>) \o endTags("param") \o endTags("params")
        \o endTags("methodResponse"),
     startTags("methodCall") \o startTags("methodName") \o <<"a">> \o endTags("methodName")
        \o startTags("params") \o startTags("param") \o ValueWire("double", <<"a">>),
     startTags("methodCall") \o startTags("methodName") \o <<"a">> \o endTags("methodName")
        \o startTags("params") \o startTags("param") \o startTags("value") \o <<"&", "a">>,
     startTags("methodCall") \o <<"<", "/", "a", ">">>,
     startTags("methodResponse") \o <<"NUL">>,
     ValueWire("int", <<"4">>),
     ValueWire("i4", <<"-", "4">>),
     startTags("value") \o <<"a">> \o endTags("value"),
     startTags("value") \o endTags("value")}

(***************************************************************************)
(* The state: one codec (its reader keeps a decoder and a pushed-back      *)
(* token between calls), the stream between a writer and a reader, what    *)
(* was last written and what the last read returned.                       *)
(***************************************************************************)
VARIABLES buf, rd, sent, got, pc

\* the shared state of concurrent Client.Call invocations: the codec pool and
\* its codecs, the client's pool table, mutex and buffers, and each call's
\* position and locals
VARIABLES codecPool, codecs, bufPoolMap, bufMtx, bufs, calls

cvars == <<codecPool, codecs, bufPoolMap, bufMtx, bufs, calls>>

vars == <<buf, rd, sent, got, pc, cvars>>

(***************************************************************************)
(* Concurrent calls of Client.Call.  Each call takes a codec from codecPool *)
(* (withCodec) and a buffer from the pool of its method (withBuffer).       *)
(***************************************************************************)
\* the goroutines that call Client.Call
Callers == {1, 2}

\* the methods they call and the arguments they pass
ClientMethods == {<<"a">>, <<"service.Do">>}

ClientArgs == {<<GoInt("int", 5)>>, <<GoPtr("*int", TRUE, NilValue)>>}

\* what the server answers: a response, or a stream that is no response
ServerWires == {codecWriteResponse(GoInt("int", 6)), writeRPC(GoString(<<>>))}

\* the codecs that are held or pooled at once are as many as the callers,
\* the buffers as many as the callers for each method
CodecIds == 1..Cardinality(Callers)

BufIds == 1..(Cardinality(Callers) * Cardinality(ClientMethods))

\* newCodec
newCodec == [rd |-> newReader(<<>>)]

\* a buffer that keeps its bytes when it goes back to the pool
bufReset_keep(b) == b

\* bytes.Buffer.Reset
bufReset(b) == <<>>

\* sync.Pool.Get: an item of the pool, taken out of it, or, when the pool is
\* empty or the collector has cleared it, the item New makes (new = TRUE)
PoolGet(pool) ==
    {[new |-> FALSE, item |-> x, pool |-> pool \ {x}] : x \in pool}
    \cup {[new |-> TRUE, item |-> 0, pool |-> {}]}

\* sync.Pool.Put
PoolPut(pool, x) == pool \cup {x}

\* the place of a new item: the least id no live item has
NewId(ids, live) == CHOOSE i \in ids \ live : \A j \in ids \ live : i <= j

\* a call that has not started
IdleCall ==
    [pc |-> "idle", method |-> <<>>, args |-> <<>>, wire |-> <<>>, codec |-> 0, buf |-> 0,
     req |-> <<>>, err |-> NoErr, val |-> Zero("int")]

\* the codecs and the buffers the calls hold
HeldCodecs == {calls[p].codec : p \in Callers} \ {0}

HeldBufs == {calls[p].buf : p \in Callers} \ {0}

PooledBufs == UNION {bufPoolMap[m] : m \in DOMAIN bufPoolMap}

\* NewClient: an empty pool table; the codec pool is empty too
ClientInit ==
    /\ codecPool = {}
    /\ codecs = [i \in CodecIds |-> newCodec]
    /\ bufPoolMap = <<>>
    /\ bufMtx = 0
    /\ bufs = [i \in BufIds |-> <<>>]
    /\ calls = [p \in Callers |-> IdleCall]

\* newCodec: a reader over an empty stream
Init ==
    /\ buf = <<>>
    /\ rd = newReader(<<>>)
    /\ sent = [op |-> "none"]
    /\ got = [op |-> "none"]
    /\ pc = "idle"
    /\ ClientInit

\* Codec.writeRPC(w, v) of a native value
WriteRPC ==
    /\ pc = "idle"
    /\ \E v \in NativeValues :
        /\ sent' = [op |-> "writeRPC", v |-> v]
        /\ IF makeValue(v) = PanicValue
           THEN \* makeValue panics before anything is written
                buf' = buf /\ pc' = "panic"
           ELSE buf' = writeRPC(v) /\ pc' = "written"
    /\ UNCHANGED <<rd, got, cvars>>

\* Codec.writeResponse(w, payload)
WriteResponse ==
    /\ pc = "idle"
    /\ \E p \in FaultPayloads \cup ErrorPayloads \cup ValuePayloads :
        /\ buf' = codecWriteResponse(p)
        /\ sent' = [op |-> "writeResponse", payload |-> p]
    /\ pc' = "written"
    /\ UNCHANGED <<rd, got, cvars>>

\* Codec.writeRequest(w, method, params...)
WriteRequest ==
    /\ pc = "idle"
    /\ \E m \in MethodNames, a \in ArgLists :
        /\ buf' = writeRequest(m, a)
        /\ sent' = [op |-> "writeRequest", method |-> m, params |-> a]
    /\ pc' = "written"
    /\ UNCHANGED <<rd, got, cvars>>

\* a peer sends a boolean element
FeedBoolean ==
    /\ pc = "idle"
    /\ \E text \in BoolTexts :
        /\ buf' = ValueWire("boolean", text)
        /\ sent' = [op |-> "feedBoolean", text |-> text]
    /\ pc' = "written"
    /\ UNCHANGED <<rd, got, cvars>>

\* a peer sends a dateTime element
FeedDateTime ==
    /\ pc = "idle"
    /\ \E text \in DateTexts :
        /\ buf' = ValueWire("dateTime.iso8601", text)
        /\ sent' = [op |-> "feedDateTime", text |-> text]
    /\ pc' = "written"
    /\ UNCHANGED <<rd, got, cvars>>

\* a peer sends a response with a value in its fault slot
FeedFault ==
    /\ pc = "idle"
    /\ \E x \in FaultSlotValues :
        /\ buf' = FaultWire(x)
        /\ sent' = [op |-> "feedFault", x |-> x]
    /\ pc' = "written"
    /\ UNCHANGED <<rd, got, cvars>>

\* a peer sends a call with a method name text
FeedCall ==
    /\ pc = "idle"
    /\ \E name \in CallNames :
        /\ buf' = CallWire(name)
        /\ sent' = [op |-> "feedCall", name |-> name]
    /\ pc' = "written"
    /\ UNCHANGED <<rd, got, cvars>>

\* a peer sends something else
FeedOdd ==
    /\ pc = "idle"
    /\ \E w \in OddWires :
        /\ buf' = w
        /\ sent' = [op |-> "feedOdd", wire |-> w]
    /\ pc' = "written"
    /\ UNCHANGED <<rd, got, cvars>>

\* the messages a peer sends cut short
WholeMessages ==
    {writeRequest(<<"a">>, <<GoInt("int", 5)>>), codecWriteResponse(GoInt("int", 6))}

\* the places where a stream can end between two tokens: after a tag
CutPoints(w) == {i \in 1..(Len(w) - 1) : w[i] = ">"}

\* a peer sends a message and the stream ends between two tokens, before
\* the end of the message
FeedCut ==
    /\ pc = "idle"
    /\ \E w \in WholeMessages :
        \E i \in CutPoints(w) :
          /\ buf' = Take(w, i)
          /\ sent' = [op |-> "feedCut", wire |-> Take(w, i), whole |-> w]
    /\ pc' = "written"
    /\ UNCHANGED <<rd, got, cvars>>

\* a peer sends a value element that holds text and no type element
FeedText ==
    /\ pc = "idle"
    /\ \E text \in PlainTexts :
        /\ buf' = startTags("value") \o text \o endTags("value")
        /\ sent' = [op |-> "feedText", text |-> text]
    /\ pc' = "written"
    /\ UNCHANGED <<rd, got, cvars>>

\* the stream after a read: what the decoder has not consumed
Rest(r) == r.dec.in

\* Codec.readRPC(r, &rpc) with rpc a zero rpcValue
ReadValue ==
    /\ pc = "written"
    /\ \E x \in {readRPCValue(rd, buf, ZeroRpcValue)} :
           /\ rd' = x.rd
           /\ buf' = Rest(x.rd)
           /\ got' = [op |-> "readValue", err |-> x.err, rpc |-> x.rpc]
    /\ pc' = "read"
    /\ UNCHANGED <<sent, cvars>>

\* the destination types of a read after the last write
DestTypes ==
    OtherDestTypes \cup (IF sent.op = "writeRPC" /\ sent.v # NilValue THEN {sent.v.t} ELSE {})

\* what a destination of type T holds before a read: the zero value, or for
\* some types a value set earlier
DestValues(T) ==
    {Zero(T)}
    \cup (CASE T = "int" -> {GoInt("int", 7)}
           [] T = "string" -> {GoString(<<"b">>)}
           [] T = "person" -> {Person(<<"Ama">>, 3)}
           [] T = "[]int" -> {GoSlice("[]int", <<GoInt("int", 8)>>)}
           [] OTHER -> {})

\* Codec.readRPC(r, &dest) with dest a variable of type T holding dest0
ReadRPC ==
    /\ pc = "written"
    /\ \E T \in DestTypes :
        \E d \in DestValues(T) :
        \E x \in {readRPC(rd, buf, Dest(T, d))} :
            /\ rd' = x.rd
            /\ buf' = Rest(x.rd)
            /\ got' = [op |-> "readRPC", T |-> T, dest0 |-> d, err |-> x.err, val |-> x.val]
    /\ pc' = "read"
    /\ UNCHANGED <<sent, cvars>>

\* Codec.readResponse(r, &reply) with reply a zero value of type T
ReadResponse ==
    /\ pc = "written"
    /\ \E T \in {"person", "int", "interface {}"} :
        \E x \in {codecReadResponse(rd, buf, Dest(T, Zero(T)))} :
            /\ rd' = x.rd
            /\ buf' = Rest(x.rd)
            /\ got' = [op |-> "readResponse", T |-> T, err |-> x.err, val |-> x.val,
                       path |-> x.path, res |-> x.res]
    /\ pc' = "read"
    /\ UNCHANGED <<sent, cvars>>

\* Codec.readRequest(r, &method, &params) with params a zero value of type T
ReadRequest ==
    /\ pc = "written"
    /\ \E T \in {"person", "int", "[]interface {}", "[]int"} :
        \E x \in {readRequest(rd, buf, Dest(T, Zero(T)))} :
            /\ rd' = x.rd
            /\ buf' = Rest(x.rd)
            /\ got' = [op |-> "readRequest", T |-> T, err |-> x.err, val |-> x.val,
                       method |-> x.method]
    /\ pc' = "read"
    /\ UNCHANGED <<sent, cvars>>

Next ==
    \/ WriteRPC
    \/ WriteResponse
    \/ WriteRequest
    \/ FeedBoolean
    \/ FeedDateTime
    \/ FeedFault
    \/ FeedCall
    \/ FeedOdd
    \/ FeedText
    \/ FeedCut
    \/ ReadValue
    \/ ReadRPC
    \/ ReadResponse
    \/ ReadRequest

Spec == Init /\ [][Next]_vars

(***************************************************************************)
(* The steps of Client.Call(method, &reply, args...) of caller p, reply an *)
(* int.                                                                    *)
(***************************************************************************)
\* caller p calls Client.Call.  The arguments are first looked at by
\* writeRequest and are drawn there; the answer of the server is drawn when
\* it arrives.
Call(p) ==
    /\ calls[p].pc = "idle"
    /\ \E m \in ClientMethods :
          calls' = [calls EXCEPT ![p] = [IdleCall EXCEPT !.pc = "withCodec", !.method = m]]
    /\ UNCHANGED <<buf, rd, sent, got, pc, codecPool, codecs, bufPoolMap, bufMtx, bufs>>

\* withCodec: c := codecPool.Get()
GetCodec(p) ==
    /\ calls[p].pc = "withCodec"
    /\ \E g \in PoolGet(codecPool) :
        \E c \in {IF g.new THEN NewId(CodecIds, HeldCodecs) ELSE g.item} :
          /\ codecPool' = g.pool
          /\ codecs' = [i \in CodecIds |->
                           IF i \in g.pool \cup (HeldCodecs \ {c}) THEN codecs[i]
                           ELSE IF g.new THEN newCodec ELSE codecs[i]]
          /\ calls' = [calls EXCEPT ![p].codec = c, ![p].pc = "lock"]
    /\ UNCHANGED <<buf, rd, sent, got, pc, bufPoolMap, bufMtx, bufs>>

\* withBuffer: c.bufMtx.Lock()
Lock(p) ==
    /\ calls[p].pc = "lock"
    /\ bufMtx = 0
    /\ bufMtx' = p
    /\ calls' = [calls EXCEPT ![p].pc = "lookup"]
    /\ UNCHANGED <<buf, rd, sent, got, pc, codecPool, codecs, bufPoolMap, bufs>>

\* withBuffer: pool, ok := c.bufPoolMap[method], and when there is none,
\* c.bufPoolMap[method] = pool, a new pool
Lookup(p) ==
    /\ calls[p].pc = "lookup"
    /\ bufPoolMap' = [m \in DOMAIN bufPoolMap \cup {calls[p].method} |->
                         IF m \in DOMAIN bufPoolMap THEN bufPoolMap[m] ELSE {}]
    /\ calls' = [calls EXCEPT ![p].pc = "unlock"]
    /\ UNCHANGED <<buf, rd, sent, got, pc, codecPool, codecs, bufMtx, bufs>>

\* withBuffer: c.bufMtx.Unlock()
Unlock(p) ==
    /\ calls[p].pc = "unlock"
    /\ bufMtx' = 0
    /\ calls' = [calls EXCEPT ![p].pc = "getBuf"]
    /\ UNCHANGED <<buf, rd, sent, got, pc, codecPool, codecs, bufPoolMap, bufs>>

\* withBuffer: buf := pool.Get()
GetBuf(p) ==
    /\ calls[p].pc = "getBuf"
    /\ \E g \in PoolGet(bufPoolMap[calls[p].method]) :
        \E b \in {IF g.new
                  THEN NewId(BufIds, HeldBufs \cup (PooledBufs \ bufPoolMap[calls[p].method]))
                  ELSE g.item} :
          /\ bufPoolMap' = [bufPoolMap EXCEPT ![calls[p].method] = g.pool]
          /\ bufs' = [i \in BufIds |->
                         IF g.new /\ i \in {b} \cup (bufPoolMap[calls[p].method] \ g.pool)
                         THEN <<>> ELSE bufs[i]]
          /\ calls' = [calls EXCEPT ![p].buf = b, ![p].pc = "writeRequest"]
    /\ UNCHANGED <<buf, rd, sent, got, pc, codecPool, codecs, bufMtx>>

\* codec.writeRequest(buf, method, args...); makeCall panics for a nil pointer
\* and the call ends with its codec and its buffer not put back
WriteCall(p) ==
    /\ calls[p].pc = "writeRequest"
    /\ \E a \in ClientArgs :
          IF \E i \in 1..Len(a) : makeValue(a[i]) = PanicValue
          THEN /\ calls' = [calls EXCEPT ![p].args = a, ![p].pc = "panic"]
               /\ bufs' = bufs
          ELSE /\ bufs' = [bufs EXCEPT ![calls[p].buf] = @ \o writeRequest(calls[p].method, a)]
               /\ calls' = [calls EXCEPT ![p].args = a, ![p].pc = "Do"]
    /\ UNCHANGED <<buf, rd, sent, got, pc, codecPool, codecs, bufPoolMap, bufMtx>>

\* http.NewRequest and c.client.Do(req): the request body is read from the
\* buffer and sent, or the request fails and the buffer is not read
Do(p) ==
    /\ calls[p].pc = "Do"
    /\ \/ /\ \E w \in ServerWires :
                calls' = [calls EXCEPT ![p].req = bufs[calls[p].buf], ![p].wire = w,
                                       ![p].pc = "readResponse"]
          /\ bufs' = [bufs EXCEPT ![calls[p].buf] = <<>>]
       \/ /\ calls' = [calls EXCEPT ![p].err = Errorf(<<"connection refused">>),
                                    ![p].pc = "Reset"]
          /\ bufs' = bufs
    /\ UNCHANGED <<buf, rd, sent, got, pc, codecPool, codecs, bufPoolMap, bufMtx>>

\* codec.readResponse(dec, reply)
ReadReply(p) ==
    /\ calls[p].pc = "readResponse"
    /\ \E x \in {codecReadResponse(codecs[calls[p].codec].rd, calls[p].wire,
                                   Dest("int", Zero("int")))} :
          /\ codecs' = [codecs EXCEPT ![calls[p].codec].rd = x.rd]
          /\ calls' = [calls EXCEPT ![p].err = x.err, ![p].val = x.val, ![p].pc = "Reset"]
    /\ UNCHANGED <<buf, rd, sent, got, pc, codecPool, bufPoolMap, bufMtx, bufs>>

\* withBuffer: buf.Reset()
ResetBuf(p) ==
    /\ calls[p].pc = "Reset"
    /\ bufs' = [bufs EXCEPT ![calls[p].buf] = bufReset(@)]
    /\ calls' = [calls EXCEPT ![p].pc = "putBuf"]
    /\ UNCHANGED <<buf, rd, sent, got, pc, codecPool, codecs, bufPoolMap, bufMtx>>

\* withBuffer: pool.Put(buf)
PutBuf(p) ==
    /\ calls[p].pc = "putBuf"
    /\ bufPoolMap' = [bufPoolMap EXCEPT ![calls[p].method] = PoolPut(@, calls[p].buf)]
    /\ calls' = [calls EXCEPT ![p].buf = 0, ![p].pc = "putCodec"]
    /\ UNCHANGED <<buf, rd, sent, got, pc, codecPool, codecs, bufMtx, bufs>>

\* withCodec: codecPool.Put(c), and Call returns
PutCodec(p) ==
    /\ calls[p].pc = "putCodec"
    /\ codecPool' = PoolPut(codecPool, calls[p].codec)
    /\ calls' = [calls EXCEPT ![p] = IdleCall]
    /\ UNCHANGED <<buf, rd, sent, got, pc, codecs, bufPoolMap, bufMtx, bufs>>

ClientNext ==
    \/ \E p \in Callers : Call(p)
    \/ \E p \in Callers : GetCodec(p)
    \/ \E p \in Callers : Lock(p)
    \/ \E p \in Callers : Lookup(p)
    \/ \E p \in Callers : Unlock(p)
    \/ \E p \in Callers : GetBuf(p)
    \/ \E p \in Callers : WriteCall(p)
    \/ \E p \in Callers : Do(p)
    \/ \E p \in Callers : ReadReply(p)
    \/ \E p \in Callers : ResetBuf(p)
    \/ \E p \in Callers : PutBuf(p)
    \/ \E p \in Callers : PutCodec(p)

ClientSpec == Init /\ [][ClientNext]_vars

(***************************************************************************)
(* Properties.                                                             *)
(***************************************************************************)
RECURSIVE SameRpc(_, _)
\* the same kind and the same payload, whatever the width of a number's type
SameRpc(a, b) ==
    /\ a.kind = b.kind
    /\ CASE a.kind = intKind -> a.value.n = b.value.n
         [] a.kind = doubleKind -> a.value.d = b.value.d
         [] a.kind = arrayKind ->
                /\ Len(a.value.array) = Len(b.value.array)
                /\ \A i \in 1..Len(a.value.array) : SameRpc(a.value.array[i], b.value.array[i])
         [] a.kind = structKind ->
                /\ Len(a.value.members) = Len(b.value.members)
                /\ \A i \in 1..Len(a.value.members) :
                    /\ a.value.members[i].Name = b.value.members[i].Name
                    /\ SameRpc(a.value.members[i].Value, b.value.members[i].Value)
         [] OTHER -> a.value = b.value

\* C1: a value of a supported kind written by the writer and read back by the
\* reader decodes without error to a value of the same kind and payload.
C1_ValueRoundTrip ==
    (/\ pc = "read"
     /\ sent.op = "writeRPC"
     /\ got.op = "readValue"
     /\ makeValue(sent.v).kind # nilKind)
    => /\ got.err = NoErr
       /\ SameRpc(got.rpc, makeValue(sent.v))

\* C2: a native value written by writeRPC and read by readRPC into a zero
\* destination of its own type is restored equal to what was written.
C2_NativeRoundTrip ==
    (/\ pc = "read"
     /\ sent.op = "writeRPC"
     /\ got.op = "readRPC"
     /\ got.T = sent.v.t
     /\ got.dest0 = Zero(got.T)
     /\ TypeKind(sent.v.t) # "ptr")
    => /\ got.err = NoErr
       /\ got.val = sent.v

\* C3: a Fault written by writeResponse comes back from readResponse as the
\* returned error, with the same code and message, and reply is unchanged.
C3_FaultRoundTrip ==
    (/\ pc = "read"
     /\ sent.op = "writeResponse"
     /\ IsErrorValue(sent.payload)
     /\ sent.payload.type = "Fault"
     /\ got.op = "readResponse")
    => /\ got.err = sent.payload
       /\ got.val = Zero(got.T)

\* an element of the given tag opens somewhere in the wire
HasElement(wire, tag) ==
    \E i \in 1..(Len(wire) - 2) : wire[i] = "<" /\ wire[i + 1] = tag /\ wire[i + 2] = ">"

\* the response the payload p is to be written as: the fault element for a
\* Fault or an error, an error wrapped as InternalError with its message
ExpectedResponse(p) ==
    xmlHeader \o startTags("methodResponse")
        \o (IF IsErrorValue(p)
            THEN startTags("fault")
                    \o writeValue(makeValue(FaultValue(
                           IF p.type = "Fault" THEN p
                           ELSE Fault(InternalError, ErrorText(p)))))
                    \o endTags("fault")
            ELSE startTags("params") \o startTags("param") \o writeValue(makeValue(p))
                    \o endTags("param") \o endTags("params"))
        \o endTags("methodResponse")

\* C4: writeResponse emits the fault element exactly for a Fault or an error
\* payload, a non-Fault error wrapped as InternalError carrying the error's
\* message; any other payload goes in params; never both elements.
C4_ResponseBranch ==
    (pc = "written" /\ sent.op = "writeResponse")
    => /\ buf = ExpectedResponse(sent.payload)
       /\ HasElement(buf, "fault") <=> IsErrorValue(sent.payload)
       /\ ~(HasElement(buf, "fault") /\ HasElement(buf, "params"))

\* C5 as stated: readResponse takes the fault path exactly when the fault
\* slot holds a struct with at least one member.
C5_FaultPathIffStruct ==
    (pc = "read" /\ sent.op = "feedFault" /\ got.op = "readResponse")
    => (got.path = "fault"
        <=> (sent.x.kind = structKind /\ Len(sent.x.value.members) >= 1))

\* no value, an array without elements, a struct without members
EmptySlot(x) ==
    \/ x.kind = nilKind
    \/ x.kind = arrayKind /\ x.value.array = <<>>
    \/ x.kind = structKind /\ x.value.members = <<>>

\* C5: readResponse takes the fault path exactly when the fault slot is not
\* empty, whatever its kind; the call then returns a Fault (the projected one,
\* or an InternalError when the projection fails) and leaves reply unchanged;
\* with an empty slot it returns nil.
C5_FaultPathIffNotEmpty ==
    (pc = "read" /\ sent.op = "feedFault" /\ got.op = "readResponse")
    => /\ got.path = "fault" <=> ~EmptySlot(sent.x)
       /\ got.path = "fault" => got.err.type = "Fault" /\ got.val = Zero(got.T)
       /\ got.path # "fault" => got.path = "params" /\ got.err = NoErr

\* a string in the fault slot was taken down the fault path
C5_Witness ==
    /\ pc = "read"
    /\ sent.op = "feedFault"
    /\ got.op = "readResponse"
    /\ sent.x.kind = stringKind
    /\ got.path = "fault"
    /\ got.err.type = "Fault"

\* C6: readRequest of a call whose methodName text is empty fails with
\* InvalidRequest.
C6_EmptyMethodName ==
    (pc = "read" /\ sent.op = "feedCall" /\ sent.name = <<>> /\ got.op = "readRequest")
    => got.err.type = "Fault" /\ got.err.Code = InvalidRequest

\* C7: an error of readRequest or readResponse for a parse or format problem
\* is a Fault whose code is one of the seven of the table.
C7_ErrorsAreFaults ==
    (/\ pc = "read"
     /\ got.op \in {"readRequest", "readResponse"}
     /\ got.err # NoErr
     /\ ~(got.op = "readResponse" /\ got.path = "fault"))
    => got.err.type = "Fault" /\ got.err.Code \in FaultCodes

\* C8: a boolean element decodes to true for the texts "1" and "true", to
\* false for "0" and "false", and fails with InvalidRequest for every other
\* text; a boolean is written as "1" or "0", which decode back to it.
C8_Boolean ==
    /\ (pc = "read" /\ sent.op = "feedBoolean" /\ got.op = "readValue")
       => IF sent.text \in {<<"1">>, <<"true">>}
          THEN got.err = NoErr /\ got.rpc = rpcValue(booleanKind, GoBool(TRUE))
          ELSE IF sent.text \in {<<"0">>, <<"false">>}
          THEN got.err = NoErr /\ got.rpc = rpcValue(booleanKind, GoBool(FALSE))
          ELSE got.err.type = "Fault" /\ got.err.Code = InvalidRequest
    /\ (pc = "written" /\ sent.op = "writeRPC" /\ sent.v.t = "bool")
       => buf = ValueWire("boolean", IF sent.v.b THEN <<"1">> ELSE <<"0">>)
    /\ (pc = "read" /\ sent.op = "writeRPC" /\ sent.v.t = "bool" /\ got.op = "readValue")
       => got.err = NoErr /\ got.rpc = rpcValue(booleanKind, sent.v)

\* the text "true" was decoded to true
C8_Witness ==
    /\ pc = "read"
    /\ sent.op = "feedBoolean"
    /\ sent.text = <<"true">>
    /\ got.op = "readValue"
    /\ got.rpc = rpcValue(booleanKind, GoBool(TRUE))

\* one of the four layouts parses the text
ParsesUnderSome(text) ==
    \E i \in 1..Len(dateTimeFormats) : TimeParse(dateTimeFormats[i], text).ok

\* C9: a dateTime text that none of the four layouts parses does not make
\* decoding fail: readValue returns no error and a dateTime value.
C9_UnparsableDateAccepted ==
    (/\ pc = "read"
     /\ sent.op = "feedDateTime"
     /\ got.op = "readValue"
     /\ ~ParsesUnderSome(sent.text))
    => got.err = NoErr /\ got.rpc.kind = dateTimeKind

\* C10: a string without any of < > & ' " is written verbatim, any other
\* string escaped, and both decode back to exactly the string written.
C10_StringRoundTrip ==
    (sent.op = "writeRPC" /\ sent.v.t = "string")
    => /\ pc = "written"
          => buf = ValueWire("string", IF NoTrigger(sent.v.s) THEN sent.v.s
                                       ELSE EscapeText(sent.v.s))
       /\ (pc = "read" /\ got.op = "readValue")
          => got.err = NoErr /\ got.rpc = rpcValue(stringKind, sent.v)

\* the stream the last write or feed put between the peers
SentWire ==
    CASE sent.op = "writeRPC" -> writeRPC(sent.v)
      [] sent.op = "feedOdd" -> sent.wire
      [] OTHER -> <<"?">>

\* an empty value element, an empty array, an empty struct
EmptyValueWires ==
    {startTags("value") \o endTags("value"),
     startTags("value") \o startTags("array") \o startTags("data") \o endTags("data")
        \o endTags("array") \o endTags("value"),
     startTags("value") \o startTags("struct") \o endTags("struct") \o endTags("value")}

SentParams == makeParams(sent.params)

\* C13: readRequest projects the parameter list into the destination: no
\* parameter leaves it unchanged; one parameter is projected directly; more
\* than one are projected as one array, so a sequence receives them in order.
C13_ParamsProjection ==
    (/\ pc = "read"
     /\ sent.op = "writeRequest"
     /\ sent.method # <<>>
     /\ got.op = "readRequest")
    => /\ got.method = sent.method
       /\ Len(sent.params) = 0 => got.err = NoErr /\ got.val = Zero(got.T)
       /\ Len(sent.params) = 1 =>
            [err |-> got.err, val |-> got.val]
                = writeToDest(SentParams[1], Dest(got.T, Zero(got.T)))
       /\ Len(sent.params) > 1 =>
            /\ [err |-> got.err, val |-> got.val]
                = writeTo(rpcValue(arrayKind, GoArray(SentParams)), got.T, Zero(got.T),
                          TRUE, TRUE)
            /\ (got.T = "[]int" /\ \A i \in 1..Len(sent.params) : sent.params[i].t = "int")
               => got.err = NoErr /\ got.val = GoSlice("[]int", sent.params)
            /\ (got.T = "[]interface {}"
                /\ \A i \in 1..Len(sent.params) : SentParams[i].kind # structKind)
               => /\ got.err = NoErr
                  /\ Len(got.val.elems) = Len(sent.params)
                  /\ \A i \in 1..Len(sent.params) :
                        got.val.elems[i] = SentParams[i].value

\* the parameters 5, 9, 7, 5 were projected into a sequence of int
C13_Witness ==
    /\ pc = "read"
    /\ sent.op = "writeRequest"
    /\ got.op = "readRequest"
    /\ got.T = "[]int"
    /\ got.err = NoErr
    /\ got.val = GoSlice("[]int", <<GoInt("int", 5), GoInt("int", 9), GoInt("int", 7), GoInt("int", 5)>>)

\* name occurs in msg as a run of consecutive symbols
Contains(msg, name) ==
    \E i \in 0..(Len(msg) - Len(name)) : SubSeq(msg, i + 1, i + Len(name)) = name

\* C14: projecting a struct-kind value whose first member matches no field of
\* the destination record (neither a tag nor an untagged field name) fails
\* with an InternalError fault whose message names that member
C14_UnknownMemberNamed ==
    (/\ pc = "read"
     /\ sent.op = "writeRPC"
     /\ got.op = "readRPC"
     /\ TypeKind(got.T) = "struct"
     /\ makeValue(sent.v).kind = structKind
     /\ makeValue(sent.v).value.members # <<>>
     /\ nameMap(TypeFields(got.T), makeValue(sent.v).value.members[1].Name) = <<>>)
    => /\ got.err.type = "Fault"
       /\ got.err.Code = InternalError
       /\ Contains(got.err.Message, makeValue(sent.v).value.members[1].Name)

\* the value that readValue decodes from the stream the write left
DecodedValue == readValue(newReader(SentWire), ZeroRpcValue)

\* the call that readCall decodes from the stream of the request written
DecodedCall == readCall(newReader(writeRequest(sent.method, sent.params)), ZeroCall)

\* C15: a destination slot of type interface{}, the destination itself or an
\* element of a []interface{}, receives the raw payload of every non-empty
\* value, array and struct included, and the projection does not fail
C15_AnySlotTakesPayload ==
    /\ (/\ pc = "read"
        /\ sent.op = "writeRPC"
        /\ got.op = "readRPC"
        /\ got.T = "interface {}"
        /\ DecodedValue.err = NoErr
        /\ ~isEmpty(DecodedValue.rpc))
       => got.err = NoErr /\ got.val = DecodedValue.rpc.value
    /\ (/\ pc = "read"
        /\ sent.op = "writeRequest"
        /\ got.op = "readRequest"
        /\ got.T = "[]interface {}"
        /\ Len(sent.params) > 1
        /\ DecodedCall.err = NoErr
        /\ \A i \in 1..Len(sent.params) : ~isEmpty(DecodedCall.rpc.Params[i]))
       => /\ got.err = NoErr
          /\ Len(got.val.elems) = Len(sent.params)
          /\ \A i \in 1..Len(sent.params) : got.val.elems[i] = DecodedCall.rpc.Params[i].value

\* the elements alone: the projection of a parameter list into a
\* []interface{} fails exactly when a parameter is of struct kind
C15_StructElementFails ==
    (/\ pc = "read"
     /\ sent.op = "writeRequest"
     /\ got.op = "readRequest"
     /\ got.T = "[]interface {}"
     /\ Len(sent.params) > 1
     /\ DecodedCall.err = NoErr)
    => (got.err # NoErr
        <=> \E i \in 1..Len(sent.params) : DecodedCall.rpc.Params[i].kind = structKind)

\* C16: a native integer of any width, signed or unsigned, is classified as
\* an int-kind value, none as nil kind, and is written as an int element
C16_IntegersAreInt ==
    (/\ pc = "written"
     /\ sent.op = "writeRPC"
     /\ sent.v.t \in IntTypes)
    => /\ makeValue(sent.v).kind = intKind
       /\ makeValue(sent.v).kind # nilKind
       /\ buf = startTags("value") \o writeXML("int", Itoa(sent.v.n)) \o endTags("value")

\* C17: toValue of a nil pointer gives a nil-kind value without failing, and
\* toValue of a pointer that is not nil gives the value of what it points to
C17_Pointers ==
    (/\ pc # "idle"
     /\ sent.op = "writeRPC"
     /\ TypeKind(sent.v.t) = "ptr")
    => /\ pc # "panic"
       /\ sent.v.isNil => makeValue(sent.v).kind = nilKind /\ buf = writeValue(ZeroRpcValue)
       /\ ~sent.v.isNil
          => makeValue(sent.v) = makeValue(sent.v.elem) /\ buf = writeRPC(sent.v.elem)

\* toValue of a pointer that is not nil gives the value of what it points to
NonNilPointerIsPointee ==
    (/\ pc = "written"
     /\ sent.op = "writeRPC"
     /\ TypeKind(sent.v.t) = "ptr"
     /\ ~sent.v.isNil)
    => makeValue(sent.v) = makeValue(sent.v.elem) /\ buf = writeRPC(sent.v.elem)

\* the name of a field's member on the wire: its rpc tag, else its own name
WireName(f) == IF f.HasTag THEN f.Tag ELSE f.Name

\* no two fields of the record type T have the same wire name
DistinctWireNames(T) ==
    \A i, j \in 1..Len(TypeFields(T)) :
        WireName(TypeFields(T)[i]) = WireName(TypeFields(T)[j]) => i = j

\* a record was written and read back into a zero record of its type, and
\* each member, taken alone, can be projected into the field it was written for
RecordReadBack ==
    /\ pc = "read"
    /\ sent.op = "writeRPC"
    /\ got.op = "readRPC"
    /\ TypeKind(sent.v.t) = "struct"
    /\ TypeFields(sent.v.t) # <<>>
    /\ got.T = sent.v.t
    /\ got.dest0 = Zero(got.T)
    /\ DecodedValue.err = NoErr
    /\ DecodedValue.rpc.kind = structKind
    /\ Len(DecodedValue.rpc.value.members) = Len(TypeFields(got.T))
    /\ \A i \in 1..Len(TypeFields(got.T)) :
          /\ TypeFields(got.T)[i].Exported
          /\ writeTo(DecodedValue.rpc.value.members[i].Value, TypeFields(got.T)[i].Type,
                     Zero(TypeFields(got.T)[i].Type), TRUE, TRUE).err = NoErr

\* the i-th member bears the wire name of the i-th field and the i-th field
\* of the record read back holds that member's value
FieldsReadBack ==
    /\ got.err = NoErr
    /\ \A i \in 1..Len(TypeFields(got.T)) :
          /\ makeValue(sent.v).value.members[i].Name = WireName(TypeFields(got.T)[i])
          /\ DecodedValue.rpc.value.members[i].Name = WireName(TypeFields(got.T)[i])
          /\ got.val.fields[i]
                = writeTo(DecodedValue.rpc.value.members[i].Value, TypeFields(got.T)[i].Type,
                          Zero(TypeFields(got.T)[i].Type), TRUE, TRUE).val

\* C18: the member of every record field is named by the field's rpc tag if
\* it has one and by the field's own name otherwise, the same rule selects
\* the field on decode, and so the member written for a field is always
\* projected back into that field
C18_FieldNames == RecordReadBack => FieldsReadBack

\* C18 amended: the same, for records whose fields have distinct wire names
C18_FieldNamesDistinct == (RecordReadBack /\ DistinctWireNames(got.T)) => FieldsReadBack

\* a person, whose fields have the tags name and age, was read back
C18_Witness ==
    /\ RecordReadBack
    /\ got.T = "person"
    /\ sent.v = Person(<<"Gyedu">>, 35)
    /\ got.val = sent.v

\* the calls that have read the answer of the server
HasRead(p) == calls[p].pc \in {"Reset", "putBuf", "putCodec"} /\ calls[p].wire # <<>>

\* C19: whatever the interleaving of the calls, no codec is held by two of
\* them at once nor held while it is in the pool, every read starts, once
\* the reader is reset, with no peeked token and a decoder over the call's
\* own stream, and what the read returns is what a new codec returns for
\* that stream: a token a former read on the codec pushed back is not seen
C19_CodecExclusive ==
    /\ \A p, q \in Callers :
          (p # q /\ calls[p].codec # 0 /\ calls[q].codec # 0)
          => calls[p].codec # calls[q].codec
    /\ HeldCodecs \cap codecPool = {}
    /\ \A p \in Callers :
          calls[p].pc = "readResponse"
          => reset(codecs[calls[p].codec].rd, calls[p].wire) = newReader(calls[p].wire)
    /\ \A p \in Callers :
          HasRead(p)
          => Let(codecReadResponse(newCodec.rd, calls[p].wire, Dest("int", Zero("int"))),
                 LAMBDA x : calls[p].err = x.err /\ calls[p].val = x.val)

\* a call is about to read with a codec that comes from the pool and keeps
\* the token a failed read pushed back, while the other call holds a codec too
C19_Witness ==
    \E p, q \in Callers :
        /\ p # q
        /\ calls[p].pc = "readResponse"
        /\ codecs[calls[p].codec].rd.peek # NilToken
        /\ calls[p].wire = codecWriteResponse(GoInt("int", 6))
        /\ calls[q].codec # 0

\* C20: no two calls in flight hold the same buffer, also when they call
\* the same method, and no held buffer is in a pool; the buffer a call gets
\* is empty, so that the request sent is the request of that call alone; the
\* pool table is read and modified only by the call that holds the mutex
C20_BufferIsolation ==
    /\ \A p, q \in Callers :
          (p # q /\ calls[p].buf # 0 /\ calls[q].buf # 0) => calls[p].buf # calls[q].buf
    /\ HeldBufs \cap PooledBufs = {}
    /\ \A p \in Callers :
          /\ calls[p].pc = "writeRequest" => bufs[calls[p].buf] = <<>>
          /\ calls[p].pc = "readResponse"
             => calls[p].req = writeRequest(calls[p].method, calls[p].args)
          /\ calls[p].pc \in {"lookup", "unlock"} <=> bufMtx = p

\* two calls of the same method are in flight, each with a buffer of its
\* own that holds its request
C20_Witness ==
    \E p, q \in Callers :
        /\ p # q
        /\ calls[p].method = calls[q].method
        /\ calls[p].pc = "Do" /\ calls[q].pc = "Do"
        /\ bufs[calls[p].buf] = writeRequest(calls[p].method, calls[p].args)
        /\ bufs[calls[q].buf] = writeRequest(calls[q].method, calls[q].args)

\* a value element was sent alone and read by readValue without error
ValueWasRead ==
    /\ pc = "read"
    /\ got.op = "readValue"
    /\ got.err = NoErr
    /\ sent.op \in {"writeRPC", "feedText", "feedBoolean", "feedDateTime"}

\* the value element of the text sent, inside the param of a params element
TextParamWire ==
    startTags("params") \o startTags("param")
        \o startTags("value") \o sent.text \o endTags("value")
        \o endTags("param") \o endTags("params")

\* C21: when readValue returns without error it has consumed the value
\* element through its end tag, whatever the form of the value: nothing of
\* the element is left in the stream or in the peeked token, and a value of
\* unwrapped text inside a param is read and the param closes without error
C21_ValueConsumed ==
    ValueWasRead
    => /\ buf = <<>>
       /\ rd.peek = NilToken
       /\ sent.op = "feedText" => readParams(newReader(TextParamWire), <<>>).err = NoErr

\* the forms other than unwrapped text: the element is consumed through
\* its end tag
TypedValueConsumed ==
    (ValueWasRead /\ (sent.op # "feedText" \/ got.rpc.kind # stringKind))
    => (buf = <<>> /\ rd.peek = NilToken)

\* an unwrapped text that is not blank: the end tag of the value is left in
\* the stream, and the param that holds such a value does not close
TextValueLeavesEndTag ==
    (ValueWasRead /\ sent.op = "feedText" /\ got.rpc.kind = stringKind)
    => /\ rd.peek = NilToken
       /\ buf = endTags("value")
       /\ readParams(newReader(TextParamWire), <<>>).err
            = Errorf(<<"parsing error. expected end element">>)

\* an array that is not empty was written, read back and projected without
\* error into a slice that held got.dest0
ArrayProjected ==
    /\ pc = "read"
    /\ sent.op = "writeRPC"
    /\ got.op = "readRPC"
    /\ TypeKind(got.T) = "slice"
    /\ got.err = NoErr
    /\ DecodedValue.err = NoErr
    /\ DecodedValue.rpc.kind = arrayKind
    /\ ~isEmpty(DecodedValue.rpc)

\* the elements the array gives a slice of type got.T
ProjectedElems == writeItems(DecodedValue.rpc.value.array, TypeElem(got.T)).elems

\* C22: an array of n elements projected into a slice that holds m elements
\* leaves it with the m elements, unchanged and in place, followed by the n
\* elements projected, in order; a further projection of the array into the
\* same slice adds the n elements once more
C22_ArrayAppends ==
    ArrayProjected
    => /\ Len(ProjectedElems) = Len(DecodedValue.rpc.value.array)
       /\ Len(SliceElems(got.val)) = Len(SliceElems(got.dest0)) + Len(ProjectedElems)
       /\ SliceElems(got.val) = SliceElems(got.dest0) \o ProjectedElems
       /\ writeToDest(DecodedValue.rpc, Dest(got.T, got.val)).err = NoErr
       /\ SliceElems(writeToDest(DecodedValue.rpc, Dest(got.T, got.val)).val)
             = SliceElems(got.dest0) \o ProjectedElems \o ProjectedElems

\* the array [1, 2] was projected into a []int that held [8]
C22_Witness ==
    /\ ArrayProjected
    /\ got.T = "[]int"
    /\ got.dest0 = GoSlice("[]int", <<GoInt("int", 8)>>)
    /\ sent.v = GoSlice("[]int", <<GoInt("int", 1), GoInt("int", 2)>>)
    /\ got.val = GoSlice("[]int", <<GoInt("int", 8), GoInt("int", 1), GoInt("int", 2)>>)

\* character data made of white space alone
WhiteToken(t) ==
    t.type = "CharData" /\ \A i \in 1..Len(t.data) : t.data[i] \in {" ", "TAB", "LF", "CR"}

\* C23: the reader holds at most one pending token, which is the last token
\* its decoder returned; putToken never replaces a pending token nor puts
\* back a token other than the last one given; the tokens trim dropped are
\* white character data.  So the tokens given are those of the stream, in
\* order and once each, with nothing but white character data removed.
C23_OnePushback ==
    /\ ~rd.lost
    /\ rd.peek # NilToken
       => rd.hist # <<>> /\ Last(rd.hist) = [t |-> rd.peek, st |-> "pending"]
    /\ \A i \in 1..Len(rd.hist) :
          /\ rd.hist[i].st = "pending" => i = Len(rd.hist) /\ rd.peek = rd.hist[i].t
          /\ rd.hist[i].st = "dropped" => WhiteToken(rd.hist[i].t)

\* a read was given a token, trim dropped the white text after it, and the
\* token after that was put back and is pending
C23_Witness ==
    /\ pc = "read"
    /\ rd.peek # NilToken
    /\ Len(rd.hist) = 3
    /\ rd.hist[1].st = "given"
    /\ rd.hist[2].st = "dropped"
    /\ rd.hist[3].st = "pending"

\* v and w are the same Go value: equal, or maps of one type with the same
\* entries, whatever the order MapKeys returns them in
SameValue(v, w) ==
    \/ v = w
    \/ /\ v # NilValue /\ w # NilValue
       /\ v.t = w.t
       /\ v.t \in MapTypes
       /\ Len(v.keys) = Len(w.keys)
       /\ {<<v.keys[i], v.vals[i]>> : i \in 1..Len(v.keys)}
             = {<<w.keys[i], w.vals[i]>> : i \in 1..Len(w.keys)}

\* C24: encoding is deterministic: whenever a value is written, a write of
\* the same value gives the same bytes, also when the value is a map of two
\* or more keys
C24_DeterministicEncoding ==
    (pc = "written" /\ sent.op = "writeRPC")
    => \A w \in NativeValues :
          (SameValue(sent.v, w) /\ makeValue(w) # PanicValue) => writeRPC(w) = buf

\* the members of a record are written in the order of its fields
RecordMembersInFieldOrder ==
    (pc = "written" /\ sent.op = "writeRPC" /\ sent.v # NilValue
        /\ makeValue(sent.v).kind = structKind /\ TypeKind(sent.v.t) = "struct")
    => /\ Len(makeValue(sent.v).value.members) = Len(TypeFields(sent.v.t))
       /\ \A i \in 1..Len(TypeFields(sent.v.t)) :
             makeValue(sent.v).value.members[i].Name = WireName(TypeFields(sent.v.t)[i])

\* a stream that ended before the message was complete was read
CutStreamRead ==
    /\ pc = "read"
    /\ \/ sent.op = "feedCut"
       \/ sent.op = "feedOdd" /\ sent.wire = <<>>

\* C25: when the stream of readRequest or readResponse ends before the
\* message is complete, between two tokens or before the first one, the
\* operation returns an error
C25_TruncationIsError ==
    (CutStreamRead /\ got.op \in {"readRequest", "readResponse"}) => got.err # NoErr

\* an empty stream: readResponse reports success and leaves the reply as it
\* was; readRequest fails, for the method name is empty
EmptyStreamRead ==
    (pc = "read" /\ sent.op = "feedOdd" /\ sent.wire = <<>>)
    => /\ got.op = "readResponse" => got.err = NoErr /\ got.val = Zero(got.T)
       /\ got.op = "readRequest"
          => got.err.type = "Fault" /\ got.err.Code = InvalidRequest

\* a call cut after its methodName element is read as a call
CutCallIsSuccess ==
    (pc = "read" /\ sent.op = "feedCut" /\ got.op = "readRequest" /\ got.T = "int"
        /\ sent.whole = writeRequest(<<"a">>, <<GoInt("int", 5)>>)
        /\ Len(sent.wire) >= Len(xmlHeader \o startTags("methodCall") \o startTags("methodName")
                                    \o <<"a">> \o endTags("methodName")))
    => got.err = NoErr /\ got.method = <<"a">>

====
